---------------------------- MODULE Spec2Model ----------------------------
(***************************************************************************)
(* Model of the rate-limiting engine of projects/rate-limiter:             *)
(*   storage/redis_client.py   the store adapter and its two Lua scripts   *)
(*   models.py                 rules, decisions, key derivation            *)
(*   services/*.py             the five strategies, the factory, the facade*)
(*   api.py                    the middleware                              *)
(*                                                                         *)
(* Time is counted in ticks, TicksPerSec ticks to the second; time.time()  *)
(* is the clock.  A Python / Lua string is a sequence of colon-free        *)
(* segments, so that f"{a}:{b}" is the concatenation a \o b; None is the   *)
(* empty sequence.  Real-valued quantities (token counts) are held as      *)
(* integers in units of 1/TokenUnit; the model computes them exactly,      *)
(* where the code computes them in binary floating point.                  *)
(***************************************************************************)
EXTENDS Integers, Sequences, FiniteSets, TLC

VARIABLES
    clock,      \* the wall clock and the store's clock, in ticks
    store,      \* the key-value store: key -> [val, zs, exp]
    rules,      \* RateLimiterService.rules: rule_key -> RateLimitRule
    procs,      \* in-flight check_request coroutines: gateway -> frame
    hist,       \* ghost: the requests completed so far, oldest first
    nreq,       \* ghost: number of requests issued so far
    nadd,       \* ghost: number of add_rule calls made so far
    http        \* the middleware's last response and its ghost counters

vars == <<clock, store, rules, procs, hist, nreq, nadd, http>>

----------------------------------------------------------------------------
(* Bounds of the model. *)

TicksPerSec == 3
MaxReq == 3
MaxAdd == 2
MaxTime == 4

----------------------------------------------------------------------------
(* Small helpers. *)

Min(a, b) == IF a < b THEN a ELSE b
Max(a, b) == IF a > b THEN a ELSE b

\* ceil(a / b) for b > 0, on integers
CeilDiv(a, b) == -((-a) \div b)

None == <<>>

Truthy_present(s) == s # None

\* Python truthiness of an Optional[str]: None and "" are falsy
Truthy(s) == s # None /\ s # <<"">>

OrElse_given(x, d) == x

\* Python "x or d" on an Optional[int]; None and 0 are both falsy, the model
\* holds an unset Optional[int] as 0
OrElse(x, d) == IF x # 0 THEN x ELSE d

Put(f, k, e) == [x \in (DOMAIN f) \cup {k} |-> IF x = k THEN e ELSE f[x]]
Del(f, k) == [x \in (DOMAIN f) \ {k} |-> f[x]]

----------------------------------------------------------------------------
(* models.py *)

TimeUnits == {"second", "minute", "hour", "day"}

Algorithms == {"token_bucket", "leaky_bucket", "fixed_window",
               "sliding_window_log", "sliding_window_counter"}

get_window_seconds(rule) ==
    CASE rule.unit = "second" -> 1
      [] rule.unit = "minute" -> 60
      [] rule.unit = "hour" -> 3600
      [] rule.unit = "day" -> 86400

\* window length of a rule in ticks
WindowTicks(rule) == get_window_seconds(rule) * TicksPerSec

RateLimitRule(domain, key, requests_per_unit, unit, algorithm, bucket_size, queue_size) ==
    [domain |-> domain, key |-> key, requests_per_unit |-> requests_per_unit,
     unit |-> unit, algorithm |-> algorithm,
     bucket_size |-> bucket_size, queue_size |-> queue_size]

ValidRule_anyquota(rule) == rule.unit \in TimeUnits /\ rule.algorithm \in Algorithms

\* the constraints pydantic enforces when a RateLimitRule is built
ValidRule(rule) ==
    /\ rule.requests_per_unit > 0
    /\ rule.unit \in TimeUnits
    /\ rule.algorithm \in Algorithms

ClientIdentifier(user_id, ip_address, endpoint) ==
    [user_id |-> user_id, ip_address |-> ip_address, endpoint |-> endpoint]

get_key(client, rule) ==
    LET identifier ==
            IF rule.key = <<"user_id">> /\ Truthy(client.user_id)
                THEN client.user_id
            ELSE IF rule.key = <<"ip_address">> /\ Truthy(client.ip_address)
                THEN client.ip_address
            ELSE IF rule.key = <<"endpoint">> /\ Truthy(client.endpoint)
                THEN client.endpoint
            ELSE <<"anonymous">>
    IN  <<"rate_limit">> \o rule.domain \o rule.key \o identifier

\* A RateLimitResult; retry_after is a set, empty for None.
Decision(allowed, remaining, limit, retry_after, algorithm) ==
    [allowed |-> allowed, remaining |-> remaining, limit |-> limit,
     retry_after |-> retry_after, algorithm |-> algorithm]

\* pydantic's field constraints on RateLimitResult; a result that breaks
\* them raises instead of being returned
ValidResult(d) ==
    /\ d.remaining >= 0
    /\ d.limit > 0
    /\ \A r \in d.retry_after : r >= 0

to_headers(d) ==
    [remaining |-> {d.remaining}, limit |-> {d.limit}, retry_after |-> d.retry_after]

----------------------------------------------------------------------------
(* The store: Redis strings, sorted sets and expiry.                       *)
(* An entry is [val, zs, exp]: the string's number, the sorted set's       *)
(* members (each member is str(score), so a member is its score), and the  *)
(* expiry time in ticks (a set, empty for "no TTL").  Expired keys are     *)
(* removed as the clock advances, so every key of the store is live.       *)

Entry(val, zs, exp) == [val |-> val, zs |-> zs, exp |-> exp]

\* a key is expired when the clock is past its expiry time
Expired(e, t) == \E x \in e.exp : t > x

Purge(s, t) == [k \in {x \in DOMAIN s : ~Expired(s[x], t)} |-> s[k]]

\* GET with the caller's default for a missing key
GetOr(s, k, d) == IF k \in DOMAIN s THEN s[k].val ELSE d

\* SET key value [EX seconds]; ex = 0 stands for no EX, which clears the TTL
Set(s, k, v, ex, t) ==
    Put(s, k, Entry(v, {}, IF ex = 0 THEN {} ELSE {t + ex * TicksPerSec}))

Incr_twice(s, k) ==
    IF k \in DOMAIN s THEN [s EXCEPT ![k].val = @ + 2]
    ELSE Put(s, k, Entry(2, {}, {}))

Incr(s, k) ==
    IF k \in DOMAIN s THEN [s EXCEPT ![k].val = @ + 1]
    ELSE Put(s, k, Entry(1, {}, {}))

Expire_early(s, k, seconds, t) ==
    IF k \in DOMAIN s THEN [s EXCEPT ![k].exp = {t + (seconds - 1) * TicksPerSec}]
    ELSE s

Expire(s, k, seconds, t) ==
    IF k \in DOMAIN s THEN [s EXCEPT ![k].exp = {t + seconds * TicksPerSec}]
    ELSE s

\* TTL in whole seconds, rounded as Redis rounds (ms + 500) / 1000;
\* -1 for a key without expiry, -2 for a missing key
Ttl(s, k, t) ==
    IF k \notin DOMAIN s THEN -2
    ELSE IF s[k].exp = {} THEN -1
    ELSE LET x == CHOOSE x \in s[k].exp : TRUE
         IN  (2 * (x - t) + TicksPerSec) \div (2 * TicksPerSec)

ZAdd(s, k, score) ==
    IF k \in DOMAIN s THEN [s EXCEPT ![k].zs = @ \cup {score}]
    ELSE Put(s, k, Entry(0, {score}, {}))

ZRemRangeByScore(s, k, lo, hi) ==
    IF k \notin DOMAIN s THEN s
    ELSE LET left == {m \in s[k].zs : ~(lo <= m /\ m <= hi)}
         IN  IF left = {} THEN Del(s, k) ELSE [s EXCEPT ![k].zs = left]

ZCard(s, k) == IF k \in DOMAIN s THEN Cardinality(s[k].zs) ELSE 0


----------------------------------------------------------------------------
(* storage/redis_client.py: the two Lua scripts and their wrappers.        *)
(* A script runs atomically in the store at store time t.                  *)

increment_script_refresh(s, key, limit, window, t) ==
    LET current == GetOr(s, key, 0)
    IN  IF current < limit
        THEN LET s2 == Expire(Incr(s, key), key, window, t)
             IN  [s |-> s2, allowed |-> TRUE, count |-> s2[key].val, ttl |-> Ttl(s2, key, t)]
        ELSE [s |-> s, allowed |-> FALSE, count |-> current, ttl |-> Ttl(s, key, t)]

\* increment_script: {allowed, count, ttl}
increment_script(s, key, limit, window, t) ==
    LET current == GetOr(s, key, 0)
    IN  IF current < limit
        THEN LET s1 == Incr(s, key)
                 new_count == s1[key].val
                 s2 == IF new_count = 1 THEN Expire(s1, key, window, t) ELSE s1
             IN  [s |-> s2, allowed |-> TRUE, count |-> new_count, ttl |-> Ttl(s2, key, t)]
        ELSE [s |-> s, allowed |-> FALSE, count |-> current, ttl |-> Ttl(s, key, t)]

\* RedisClient.incr_with_limit: a ttl that is not positive is reported as
\* window_seconds
incr_with_limit(s, key, limit, window_seconds, t) ==
    LET r == increment_script(s, key, limit, window_seconds, t)
    IN  [r EXCEPT !.ttl = IF r.ttl > 0 THEN r.ttl ELSE window_seconds]

\* a token count is held in units of 1/TokenUnit tokens; one tick of refill
\* at q tokens per W seconds is q * RefillUnit(W) units
TokenUnit == get_window_seconds([unit |-> "day"]) * TicksPerSec
RefillUnit(W) == TokenUnit \div (W * TicksPerSec)

\* math.min(capacity, tokens + elapsed * refill_rate), refill_rate = q / W,
\* in token units; the comparison is made before the product so that the
\* product stays small
Refill(tokens, capacity, q, W, elapsed) ==
    IF elapsed * q >= CeilDiv(capacity * TokenUnit - tokens, RefillUnit(W))
    THEN capacity * TokenUnit
    ELSE tokens + elapsed * q * RefillUnit(W)

TokenTTL == 3600

Consume_free(tokens, allowed) == tokens

\* if allowed then tokens = tokens - 1 end
Consume(tokens, allowed) == IF allowed THEN tokens - TokenUnit ELSE tokens

\* token_bucket_script with ARGV = {capacity, refill_rate = q / W, now}:
\* {allowed, floor(tokens)}
token_bucket_script(s, key, capacity, q, W, now, t) ==
    LET tokens_key == key \o <<"tokens">>
        timestamp_key == key \o <<"timestamp">>
        tokens0 == GetOr(s, tokens_key, capacity * TokenUnit)
        last_refill == GetOr(s, timestamp_key, now)
        elapsed == now - last_refill
        tokens1 == Refill(tokens0, capacity, q, W, elapsed)
        allowed == tokens1 >= TokenUnit
        tokens2 == Consume(tokens1, allowed)
        s1 == Set(s, tokens_key, tokens2, 0, t)
        s2 == Set(s1, timestamp_key, now, 0, t)
        s3 == Expire(s2, tokens_key, TokenTTL, t)
        s4 == Expire(s3, timestamp_key, TokenTTL, t)
    IN  [s |-> s4, allowed |-> allowed, remaining |-> tokens2 \div TokenUnit]

token_bucket_check_unsaved(s, key, capacity, q, W, now, t) ==
    [token_bucket_script(s, key, capacity, q, W, now, t) EXCEPT !.s = s]

\* RedisClient.token_bucket_check; now is the time.time() the wrapper read
token_bucket_check(s, key, capacity, q, W, now, t) ==
    token_bucket_script(s, key, capacity, q, W, now, t)

----------------------------------------------------------------------------
(* services/*.py: the strategies.                                          *)
(* A check_rate_limit coroutine is a frame: the rule and client it was     *)
(* called with, the time.time() it read (now), the number of store         *)
(* round-trips it has completed (pc), its locals a and b, and its outcome  *)
(* once it has returned.  One step of a strategy is one awaited store      *)
(* round-trip together with the synchronous code that follows it.          *)

NoDecision == Decision(FALSE, 0, 0, {}, "")

Frame(client, rule, now) ==
    [client |-> client, rule |-> rule, now |-> now, pc |-> 0, a |-> 0, b |-> 0,
     done |-> FALSE, failed |-> FALSE, kind |-> "pending", d |-> NoDecision]

\* return RateLimitResult(...): the frame ends with the decision, or with
\* the ValidationError pydantic raises
Return(f, d) ==
    IF ValidResult(d)
    THEN [f EXCEPT !.done = TRUE, !.kind = "decision", !.d = d, !.pc = @ + 1]
    ELSE [f EXCEPT !.done = TRUE, !.kind = "error", !.pc = @ + 1]

\* an exception raised by the store round-trip the frame is waiting for; no
\* strategy and no caller catches it
Raise(f) == [f EXCEPT !.done = TRUE, !.failed = TRUE, !.kind = "error"]

Await(f) == [f EXCEPT !.pc = @ + 1]

get_retry_after_unclamped(ttl) == ttl

\* RateLimiterBase._get_retry_after
get_retry_after(ttl) == Max(ttl, 1)

\* int(1 / (requests_per_unit / window_seconds)) + 1; Python's float
\* quotient truncates to window_seconds // requests_per_unit for every
\* quota up to 2000 and every unit (checked by evaluation)
RetryFromRate(rule) == (get_window_seconds(rule) \div rule.requests_per_unit) + 1

TokenBucketStep(f, s, t) ==
    LET rule == f.rule
        key == get_key(f.client, rule)
        window_seconds == get_window_seconds(rule)
        capacity == OrElse(rule.bucket_size, rule.requests_per_unit)
        r == token_bucket_check(s, key, capacity, rule.requests_per_unit,
                                window_seconds, f.now, t)
    IN  [s |-> r.s,
         f |-> IF r.allowed
               THEN Return(f, Decision(TRUE, r.remaining, capacity, {}, "token_bucket"))
               ELSE Return(f, Decision(FALSE, 0, capacity, {RetryFromRate(rule)},
                                       "token_bucket"))]

WindowStart_zero(now, window_seconds) == 0

\* int(time.time() // window_seconds) * window_seconds, in seconds
WindowStart(now, window_seconds) ==
    (now \div (window_seconds * TicksPerSec)) * window_seconds

WindowKey_global(base, window_start) == <<"window", ToString(window_start)>>

\* f"{base_key}:window:{window_start}"
WindowKey(base, window_start) == base \o <<"window", ToString(window_start)>>

FixedWindowStep(f, s, t) ==
    LET rule == f.rule
        window_seconds == get_window_seconds(rule)
        current_window == WindowStart(f.now, window_seconds)
        key == WindowKey(get_key(f.client, rule), current_window)
        r == incr_with_limit(s, key, rule.requests_per_unit, window_seconds, t)
        remaining == Max(0, rule.requests_per_unit - r.count)
    IN  [s |-> r.s,
         f |-> IF r.allowed
               THEN Return(f, Decision(TRUE, remaining, rule.requests_per_unit, {},
                                       "fixed_window"))
               ELSE Return(f, Decision(FALSE, 0, rule.requests_per_unit,
                                       {get_retry_after(r.ttl)}, "fixed_window"))]

LogRemaining_sign(rule, current_count) == rule.requests_per_unit - (current_count - 1)

\* remaining of an admitted sliding-window-log request
LogRemaining(rule, current_count) == rule.requests_per_unit - current_count - 1

\* round-trips: 0 zremrangebyscore, 1 zcard, 2 zadd, 3 expire
SlidingWindowLogStep(f, s, t) ==
    LET rule == f.rule
        log_key == get_key(f.client, rule) \o <<"log">>
        window_ticks == WindowTicks(rule)
        window_start == f.now - window_ticks
    IN  CASE f.pc = 0 ->
                [s |-> ZRemRangeByScore(s, log_key, 0, window_start), f |-> Await(f)]
          [] f.pc = 1 ->
                LET current_count == ZCard(s, log_key)
                IN  [s |-> s,
                     f |-> IF current_count < rule.requests_per_unit
                           THEN [Await(f) EXCEPT !.a = current_count]
                           ELSE Return(f, Decision(FALSE, 0, rule.requests_per_unit,
                                            {RetryFromRate(rule)}, "sliding_window_log"))]
          [] f.pc = 2 ->
                [s |-> ZAdd(s, log_key, f.now), f |-> Await(f)]
          [] OTHER ->
                [s |-> Expire(s, log_key, get_window_seconds(rule), t),
                 f |-> Return(f, Decision(TRUE, LogRemaining(rule, f.a),
                                   rule.requests_per_unit, {}, "sliding_window_log"))]

WeightedCount_unweighted(count, previous_count, now, window_seconds) ==
    count + previous_count

\* int(count + previous_count * (1.0 - progress)), where progress is the
\* elapsed fraction of the current window
WeightedCount(count, previous_count, now, window_seconds) ==
    LET window_ticks == window_seconds * TicksPerSec
        elapsed_in_current == now - WindowStart(now, window_seconds) * TicksPerSec
    IN  count + (previous_count * (window_ticks - elapsed_in_current)) \div window_ticks

\* round-trips: 0 get current, 1 get previous, then 2 incr, 3 expire on the
\* admit path and 2 ttl on the reject path
SlidingWindowCounterStep(f, s, t) ==
    LET rule == f.rule
        window_seconds == get_window_seconds(rule)
        current_window_start == WindowStart(f.now, window_seconds)
        previous_window_start == current_window_start - window_seconds
        base_key == get_key(f.client, rule)
        current_key == WindowKey(base_key, current_window_start)
        previous_key == WindowKey(base_key, previous_window_start)
        admit == WeightedCount(f.a, f.b, f.now, window_seconds) < rule.requests_per_unit
    IN  CASE f.pc = 0 ->
                [s |-> s, f |-> [Await(f) EXCEPT !.a = GetOr(s, current_key, 0)]]
          [] f.pc = 1 ->
                [s |-> s, f |-> [Await(f) EXCEPT !.b = GetOr(s, previous_key, 0)]]
          [] f.pc = 2 /\ admit ->
                LET s1 == Incr(s, current_key)
                IN  [s |-> s1, f |-> [Await(f) EXCEPT !.a = s1[current_key].val]]
          [] f.pc = 2 /\ ~admit ->
                LET ttl0 == Ttl(s, current_key, t)
                    ttl == IF ttl0 < 0 THEN window_seconds ELSE ttl0
                IN  [s |-> s,
                     f |-> Return(f, Decision(FALSE, 0, rule.requests_per_unit,
                                      {get_retry_after(ttl)}, "sliding_window_counter"))]
          [] OTHER ->
                LET estimated_count == WeightedCount(f.a, f.b, f.now, window_seconds)
                    remaining == Max(0, rule.requests_per_unit - estimated_count)
                IN  [s |-> Expire(s, current_key, window_seconds * 2, t),
                     f |-> Return(f, Decision(TRUE, remaining, rule.requests_per_unit,
                                      {}, "sliding_window_counter"))]

Leaked_ceil(elapsed, rule) == CeilDiv(elapsed * rule.requests_per_unit, WindowTicks(rule))

\* int(elapsed * outflow_rate), outflow_rate = requests_per_unit /
\* window_seconds; int() truncates toward zero
Leaked(elapsed, rule) ==
    IF elapsed >= 0
    THEN (elapsed * rule.requests_per_unit) \div WindowTicks(rule)
    ELSE -(((-elapsed) * rule.requests_per_unit) \div WindowTicks(rule))

\* round-trips: 0 get queue, 1 get last_leak, 2 set queue, 3 set last_leak;
\* after round-trip 1 the local a holds the leaked-down current_count
LeakyBucketStep(f, s, t) ==
    LET rule == f.rule
        key == get_key(f.client, rule)
        queue_key == key \o <<"queue">>
        last_leak_key == key \o <<"last_leak">>
        window_seconds == get_window_seconds(rule)
        queue_size == OrElse(rule.queue_size, rule.requests_per_unit * 2)
    IN  CASE f.pc = 0 ->
                [s |-> s, f |-> [Await(f) EXCEPT !.a = GetOr(s, queue_key, 0)]]
          [] f.pc = 1 ->
                LET last_leak == GetOr(s, last_leak_key, f.now)
                    elapsed == f.now - last_leak
                    current_count == Max(0, f.a - Leaked(elapsed, rule))
                IN  [s |-> s,
                     f |-> IF current_count < queue_size
                           THEN [Await(f) EXCEPT !.a = current_count]
                           ELSE Return(f, Decision(FALSE, 0, queue_size,
                                            {RetryFromRate(rule)}, "leaky_bucket"))]
          [] f.pc = 2 ->
                [s |-> Set(s, queue_key, f.a + 1, window_seconds, t), f |-> Await(f)]
          [] OTHER ->
                [s |-> Set(s, last_leak_key, f.now, window_seconds, t),
                 f |-> Return(f, Decision(TRUE, queue_size - (f.a + 1), queue_size,
                                   {}, "leaky_bucket"))]

Step_latest(f, s, t) ==
    LET g == [f EXCEPT !.rule = rules[f.rule.domain \o f.rule.key]]
    IN  CASE g.rule.algorithm = "token_bucket" -> TokenBucketStep(g, s, t)
          [] g.rule.algorithm = "leaky_bucket" -> LeakyBucketStep(g, s, t)
          [] g.rule.algorithm = "fixed_window" -> FixedWindowStep(g, s, t)
          [] g.rule.algorithm = "sliding_window_log" -> SlidingWindowLogStep(g, s, t)
          [] g.rule.algorithm = "sliding_window_counter" -> SlidingWindowCounterStep(g, s, t)

\* RateLimiterFactory.create and the strategy's next round-trip
Step(f, s, t) ==
    CASE f.rule.algorithm = "token_bucket" -> TokenBucketStep(f, s, t)
      [] f.rule.algorithm = "leaky_bucket" -> LeakyBucketStep(f, s, t)
      [] f.rule.algorithm = "fixed_window" -> FixedWindowStep(f, s, t)
      [] f.rule.algorithm = "sliding_window_log" -> SlidingWindowLogStep(f, s, t)
      [] f.rule.algorithm = "sliding_window_counter" -> SlidingWindowCounterStep(f, s, t)

\* the most round-trips any strategy makes
MaxOps == 4

\* A coroutine run to its end with no other activity in between and no time
\* passing; the store fails at round-trip number fail (no round-trip fails
\* if fail = MaxOps), which leaves the effects of the round-trips before it.
RECURSIVE Run(_, _, _, _)
Run(f, s, t, fail) ==
    IF f.done THEN [f |-> f, s |-> s]
    ELSE IF f.pc = fail THEN [f |-> Raise(f), s |-> s]
    ELSE LET r == Step(f, s, t) IN Run(r.f, r.s, t, fail)

----------------------------------------------------------------------------
(* services/rate_limiter_service.py: the rule registry and the facade. *)

\* f"{domain}:{key}"
RuleKey(domain, key) == domain \o key

add_rule_keep(rs, rule) ==
    IF RuleKey(rule.domain, rule.key) \in DOMAIN rs THEN rs
    ELSE Put(rs, RuleKey(rule.domain, rule.key), rule)

\* self.rules[f"{rule.domain}:{rule.key}"] = rule
add_rule(rs, rule) == Put(rs, RuleKey(rule.domain, rule.key), rule)

\* self.rules.get(rule_key), as a set: empty for None
get_rule(rs, domain, key) ==
    IF RuleKey(domain, key) \in DOMAIN rs THEN {rs[RuleKey(domain, key)]} ELSE {}

NoRules == [k \in {} |-> 0]

\* RateLimiterService._load_default_rules
DefaultRules ==
    add_rule(add_rule(add_rule(NoRules,
        RateLimitRule(<<"auth">>, <<"user_id">>, 5, "minute", "sliding_window_counter", 0, 0)),
        RateLimitRule(<<"api">>, <<"ip_address">>, 100, "minute", "token_bucket", 0, 0)),
        RateLimitRule(<<"messaging">>, <<"user_id">>, 5, "day", "leaky_bucket", 0, 0))

NoRuleDecision_closed == Decision(FALSE, 0, 1000, {1}, "none")

\* the decision check_request returns when no rule matches
NoRuleDecision == Decision(TRUE, 999, 1000, {}, "none")

\* check_request run to its end at one instant: the outcome and the store
\* it leaves
check_request(rs, s, client, domain, key_type, now, fail) ==
    LET rule == get_rule(rs, domain, key_type)
    IN  IF rule = {}
        THEN [s |-> s, kind |-> "decision", d |-> NoRuleDecision,
              failed |-> FALSE, ops |-> 0]
        ELSE LET r == Run(Frame(client, CHOOSE x \in rule : TRUE, now), s, now, fail)
             IN  [s |-> r.s, kind |-> r.f.kind, d |-> r.f.d,
                  failed |-> r.f.failed, ops |-> r.f.pc]

----------------------------------------------------------------------------
(* Ghost observations of the store before a request, kept in the history. *)

IsPrefix(p, k) == Len(p) <= Len(k) /\ SubSeq(k, 1, Len(p)) = p

\* no key of the store lies under the base key
Fresh(s, base) == \A k \in DOMAIN s : ~IsPrefix(base, k)

\* the number of queued requests that have not leaked out by time now
QueueLevel(s, base, rule, now) ==
    IF base \o <<"queue">> \notin DOMAIN s THEN 0
    ELSE Max(0, s[base \o <<"queue">>].val
                  - Leaked(now - GetOr(s, base \o <<"last_leak">>, now), rule))

\* The admission-counting state of a client under a rule as a request made
\* at time now finds it, in units: the tokens missing from the bucket after
\* the refill due at now (in 1/TokenUnit tokens), the queue slots not yet
\* leaked, the counter of the current window, the log members inside the
\* window.
Counted(s, client, rule, now) ==
    LET base == get_key(client, rule)
        W == get_window_seconds(rule)
    IN  CASE rule.algorithm = "token_bucket" ->
                LET capacity == OrElse(rule.bucket_size, rule.requests_per_unit)
                    tokens == GetOr(s, base \o <<"tokens">>, capacity * TokenUnit)
                    last_refill == GetOr(s, base \o <<"timestamp">>, now)
                IN  capacity * TokenUnit
                        - Refill(tokens, capacity, rule.requests_per_unit, W, now - last_refill)
          [] rule.algorithm = "leaky_bucket" -> QueueLevel(s, base, rule, now)
          [] rule.algorithm \in {"fixed_window", "sliding_window_counter"} ->
                GetOr(s, WindowKey(base, WindowStart(now, W)), 0)
          [] OTHER ->
                IF base \o <<"log">> \in DOMAIN s
                THEN Cardinality({m \in s[base \o <<"log">>].zs : m > now - WindowTicks(rule)})
                ELSE 0

\* one unit of the counting state: a whole token, or one count
CountUnit(rule) == IF rule.algorithm = "token_bucket" THEN TokenUnit ELSE 1

HistEntry(t, client, domain, key_type, rule, out, s) ==
    [t |-> t, client |-> client, domain |-> domain, key_type |-> key_type,
     rule |-> rule, kind |-> out.kind, d |-> out.d,
     failed |-> out.failed, ops |-> out.ops,
     fresh |-> \A r \in rule : Fresh(s, get_key(client, r)),
     level |-> IF \E r \in rule : r.algorithm = "leaky_bucket"
               THEN LET r == CHOOSE r \in rule : TRUE
                    IN  QueueLevel(s, get_key(client, r), r, t)
               ELSE 0]

\* keep = TRUE keeps the whole history, keep = FALSE only the last request
Record(h, e, keep) == IF keep THEN Append(h, e) ELSE <<e>>

----------------------------------------------------------------------------
(* Actions. *)

NoStore == [k \in {} |-> Entry(0, {}, {})]

Init ==
    /\ clock = 0
    /\ store = NoStore
    /\ rules = DefaultRules
    /\ procs = <<>>
    /\ hist = <<>>
    /\ nreq = 0
    /\ nadd = 0
    /\ http = <<>>

\* d ticks pass; the store drops the keys that expire
Tick(d, limit) ==
    /\ clock + d <= limit
    /\ clock' = clock + d
    /\ store' = Purge(store, clock + d)
    /\ UNCHANGED <<rules, procs, hist, nreq, nadd, http>>

\* RateLimiterService.add_rule
AddRule(rule) ==
    /\ nadd < MaxAdd
    /\ ValidRule(rule)
    /\ rules' = add_rule(rules, rule)
    /\ nadd' = nadd + 1
    /\ UNCHANGED <<clock, store, procs, hist, nreq, http>>

\* RateLimiterService.check_request, processed on its own
CheckRequest(client, domain, key_type, fail, keep) ==
    /\ nreq < MaxReq
    /\ LET out == check_request(rules, store, client, domain, key_type, clock, fail)
       IN  /\ store' = out.s
           /\ hist' = Record(hist, HistEntry(clock, client, domain, key_type,
                                    get_rule(rules, domain, key_type), out, store), keep)
    /\ nreq' = nreq + 1
    /\ UNCHANGED <<clock, rules, procs, nadd, http>>

----------------------------------------------------------------------------
(* Spec: the facade under one client, with rule replacement and store      *)
(* failures, requests processed one at a time.                             *)

Alice == ClientIdentifier(<<"alice">>, None, None)

TestRule(q, unit, algorithm, bucket_size, queue_size) ==
    RateLimitRule(<<"test">>, <<"user_id">>, q, unit, algorithm, bucket_size, queue_size)

SpecRules ==
    {TestRule(1, "second", "token_bucket", 2, 0),
     TestRule(1, "second", "leaky_bucket", 0, 0),
     TestRule(2, "second", "fixed_window", 0, 0),
     TestRule(2, "second", "sliding_window_log", 0, 0),
     TestRule(2, "second", "sliding_window_counter", 0, 0)}

SpecDomains == {<<"test">>, <<"nonexistent">>}

\* the rules of Spec have windows of one second; the clock runs through the
\* first window up to the start of the second one
OneWindow == get_window_seconds([unit |-> "second"]) * TicksPerSec

Next ==
    \/ Tick(1, OneWindow)
    \/ \E r \in SpecRules : AddRule(r)
    \/ \E dom \in SpecDomains, fail \in 0..MaxOps :
            CheckRequest(Alice, dom, <<"user_id">>, fail, FALSE)

Spec == Init /\ [][Next]_vars

----------------------------------------------------------------------------
(* Claims checked under Spec. *)

Last == hist[Len(hist)]

Decided(e) == e.kind = "decision"

\* C1: every returned Decision, of each of the five strategies and of the
\* no-rule case, after any sequence of requests and rule replacements,
\* has 0 <= remaining <= limit.
C1_RemainingWithinLimit ==
    \A i \in DOMAIN hist :
        Decided(hist[i]) => 0 <= hist[i].d.remaining /\ hist[i].d.remaining <= hist[i].d.limit

\* a strategy decided right after the rule was replaced, leaving quota over
C1_Witness ==
    /\ hist # <<>> /\ Decided(Last) /\ nadd >= 2
    /\ Last.d.algorithm = "sliding_window_log" /\ Last.d.allowed
    /\ Last.d.remaining = Last.d.limit - 1

\* C2: a rejection carries retry_after >= 1 and an admission carries no
\* retry_after, whatever the store holds (a counter key without TTL, a
\* missing key, a key about to expire).
C2_RetryAfterOnRejectOnly ==
    \A i \in DOMAIN hist :
        Decided(hist[i]) =>
            IF hist[i].d.allowed THEN hist[i].d.retry_after = {}
            ELSE hist[i].d.retry_after # {} /\ \A r \in hist[i].d.retry_after : r >= 1

\* a sliding-window-counter rejection while the current window's counter
\* has less than half a second to live, so that TTL reports 0
C2_Witness ==
    /\ hist # <<>> /\ Decided(Last) /\ ~Last.d.allowed
    /\ Last.d.algorithm = "sliding_window_counter"
    /\ Last.t = clock
    /\ \E r \in Last.rule :
          Ttl(store, WindowKey(get_key(Last.client, r),
                               WindowStart(clock, get_window_seconds(r))), clock) = 0

\* C3: a request during which a store round-trip failed is admitted
\* (fail-open): it ends with a Decision that has allowed = TRUE.
C3_FailOpen ==
    \A i \in DOMAIN hist :
        hist[i].failed => Decided(hist[i]) /\ hist[i].d.allowed

\* C4: with no rule for (domain, key_type), check_request admits with
\* algorithm "none", makes no store round-trip and leaves the store as it
\* was, however many requests came before.
C4_NoRuleAdmits ==
    [][(nreq' = nreq + 1 /\ hist'[Len(hist')].rule = {}) =>
          /\ Decided(hist'[Len(hist')])
          /\ hist'[Len(hist')].d.allowed
          /\ hist'[Len(hist')].d.algorithm = "none"
          /\ hist'[Len(hist')].ops = 0
          /\ store' = store]_vars

\* the third request in a row without a rule, with counter state of an
\* earlier rule in the store
C4_Witness ==
    /\ hist # <<>> /\ Last.rule = {} /\ Decided(Last) /\ Last.d.allowed
    /\ nreq >= 3 /\ store # NoStore

----------------------------------------------------------------------------
(* api.py: the middleware.                                                 *)
(* A request path is the sequence of its components: "/auth/login" is      *)
(* <<"auth", "login">>, so that "/auth/" in path means that "auth" is a    *)
(* component followed by another one.                                      *)

HealthPath == <<"health">>

\* "/x/" in request.url.path
HasDir(path, x) == \E i \in 1..(Len(path) - 1) : path[i] = x

\* the domain dispatch derives from the path
PathDomain(path) ==
    IF HasDir(path, "auth") THEN <<"auth">>
    ELSE IF HasDir(path, "messages") THEN <<"messaging">>
    ELSE <<"api">>

\* the ClientIdentifier dispatch builds; host and user are None when the
\* request has no client address or no X-User-Id header
RequestClient(path, host, user) ==
    ClientIdentifier(IF user = None THEN <<"anonymous">> ELSE user,
                     IF host = None THEN <<"unknown">> ELSE host,
                     path)

Response(status, forwarded, headers) ==
    [status |-> status, forwarded |-> forwarded, headers |-> headers]

NoHeaders == [remaining |-> {}, limit |-> {}, retry_after |-> {}]

Respond_forward(out) ==
    [s |-> out.s, called |-> TRUE, out |-> out,
     resp |-> Response(200, 1, to_headers(out.d))]

\* the response dispatch builds from the facade's outcome: 429 with the
\* rate-limit headers on a rejection, else the forwarded request's response
\* with the headers attached; an exception out of check_request is answered
\* 500.  forwarded counts the calls of call_next.
Respond(out) ==
    [s |-> out.s, called |-> TRUE, out |-> out,
     resp |-> IF out.kind # "decision" THEN Response(500, 0, NoHeaders)
              ELSE IF ~out.d.allowed THEN Response(429, 0, to_headers(out.d))
              ELSE Response(200, 1, to_headers(out.d))]

dispatch_checked(rs, s, path, host, user, now, fail) ==
    Respond(check_request(rs, s, RequestClient(path, host, user),
                          PathDomain(path), <<"ip_address">>, now, fail))

\* RateLimitMiddleware.dispatch run to its end at one instant: the response,
\* the facade's outcome and the store it leaves
dispatch(rs, s, path, host, user, now, fail) ==
    IF path = HealthPath
    THEN [s |-> s, called |-> FALSE, resp |-> Response(200, 1, NoHeaders),
          out |-> [s |-> s, kind |-> "none", d |-> NoDecision, failed |-> FALSE, ops |-> 0]]
    ELSE Respond(check_request(rs, s, RequestClient(path, host, user),
                               PathDomain(path), <<"ip_address">>, now, fail))

\* the largest burst any default rule admits from fresh state
DefaultBurst ==
    LET cap(r) == CASE r.algorithm = "token_bucket" ->
                          OrElse(r.bucket_size, r.requests_per_unit)
                    [] r.algorithm = "leaky_bucket" ->
                          OrElse(r.queue_size, r.requests_per_unit * 2)
                    [] OTHER -> r.requests_per_unit
    IN  CHOOSE n \in {cap(DefaultRules[k]) : k \in DOMAIN DefaultRules} :
            \A k \in DOMAIN DefaultRules : cap(DefaultRules[k]) <= n

\* http: the path the client keeps requesting (target), how many requests
\* it has sent (sent), whether one was answered 429 (seen429), and the path
\* and the response of the last request
MwIdle(target) ==
    [target |-> target, sent |-> 0, seen429 |-> FALSE, path |-> None,
     resp |-> Response(0, 0, NoHeaders)]

MwHost == <<"10.0.0.1">>

MwPaths == {HealthPath, <<"api", "data">>, <<"auth", "login">>, <<"messages", "send">>}

InitMw ==
    /\ clock = 0
    /\ store = NoStore
    /\ rules = DefaultRules
    /\ procs = <<>>
    /\ hist = <<>>
    /\ nreq = 0
    /\ nadd = 0
    /\ http \in {MwIdle(p) : p \in MwPaths}

\* one more request of the client to its path, at the same instant
Dispatch(host, user) ==
    /\ http.sent <= DefaultBurst
    /\ \E r \in {dispatch(rules, store, http.target, host, user, clock, MaxOps)} :
           /\ store' = r.s
           /\ http' = [http EXCEPT !.sent = @ + 1, !.resp = r.resp, !.path = http.target,
                                   !.seen429 = @ \/ r.resp.status = 429]
           /\ hist' = IF r.called
                      THEN <<HistEntry(clock, RequestClient(http.target, host, user),
                                       PathDomain(http.target), <<"ip_address">>,
                                       get_rule(rules, PathDomain(http.target),
                                                <<"ip_address">>), r.out, store)>>
                      ELSE hist
    /\ UNCHANGED <<clock, rules, procs, nreq, nadd>>

\* a health probe of the same client, at any point of its stream
Probe(host, user) ==
    /\ \E r \in {dispatch(rules, store, HealthPath, host, user, clock, MaxOps)} :
           /\ store' = r.s
           /\ http' = [http EXCEPT !.resp = r.resp, !.path = HealthPath]
           /\ hist' = IF r.called
                      THEN <<HistEntry(clock, RequestClient(HealthPath, host, user),
                                       PathDomain(HealthPath), <<"ip_address">>,
                                       get_rule(rules, PathDomain(HealthPath),
                                                <<"ip_address">>), r.out, store)>>
                      ELSE hist
    /\ UNCHANGED <<clock, rules, procs, nreq, nadd>>

NextMw ==
    \/ Dispatch(MwHost, None)
    \/ Probe(MwHost, None)

SpecMw == InitMw /\ [][NextMw]_vars

\* C5: under the default rules every path other than /health is limited:
\* a client that has sent more requests to it, at one instant, than the
\* largest burst a default rule admits, has been answered 429.
C5_EveryPathLimited ==
    (http.target # HealthPath /\ http.sent > DefaultBurst) => http.seen429

\* the api path is limited: the request after the burst is answered 429
C5_Witness ==
    /\ http.target = <<"api", "data">> /\ http.sent > DefaultBurst
    /\ http.resp.status = 429

----------------------------------------------------------------------------
(* SpecStream: one client under one fixed rule, requests processed one at  *)
(* a time with a healthy store, the whole sequence of decisions kept.  The *)
(* client may stay idle for longer than the token keys live.               *)

StreamRules ==
    {TestRule(1, "second", "token_bucket", 2, 0),
     TestRule(1, "day", "token_bucket", 0, 0),
     TestRule(1, "second", "leaky_bucket", 0, 0),
     TestRule(2, "second", "leaky_bucket", 0, 1),
     TestRule(2, "second", "sliding_window_log", 0, 0),
     TestRule(1, "second", "sliding_window_log", 0, 0),
     TestRule(2, "second", "sliding_window_counter", 0, 0),
     TestRule(2, "second", "fixed_window", 0, 0),
     TestRule(1, "second", "fixed_window", 0, 0)}

\* the shortest idle time after which the token keys have expired, in ticks
IdleGap == TokenTTL * TicksPerSec + 1

InitStream ==
    /\ clock = 0
    /\ store = NoStore
    /\ rules \in {add_rule(DefaultRules, r) : r \in StreamRules}
    /\ procs = <<>>
    /\ hist = <<>>
    /\ nreq = 0
    /\ nadd = 0
    /\ http = <<>>

NextStream ==
    \/ \E base \in {0, IdleGap} : clock >= base /\ Tick(1, base + MaxTime)
    \/ Tick(IdleGap, IdleGap + MaxTime)
    \/ CheckRequest(Alice, <<"test">>, <<"user_id">>, MaxOps, TRUE)

SpecStream == InitStream /\ [][NextStream]_vars

\* the requests i..j of the history were made under one rule, of the given
\* algorithm, by one client
SameStream(i, j, algorithm) ==
    /\ \E r \in hist[i].rule : r.algorithm = algorithm
    /\ \A k \in i..j : hist[k].rule = hist[i].rule /\ hist[k].client = hist[i].client

Admitted(i, j) == {k \in i..j : Decided(hist[k]) /\ hist[k].d.allowed}

RuleOf(i) == CHOOSE r \in hist[i].rule : TRUE

\* C6: sliding window log, requests one at a time: the admitted requests
\* whose timestamps lie in an interval [t, t + window_seconds) are at most
\* quota, requests with equal timestamps included.
C6_LogWindowBound ==
    \A i \in 1..Len(hist) : \A j \in i..Len(hist) :
        (/\ SameStream(i, j, "sliding_window_log")
         /\ hist[j].t < hist[i].t + WindowTicks(RuleOf(i)))
        => Cardinality(Admitted(i, j)) <= RuleOf(i).requests_per_unit

\* requests with distinct timestamps are held to the quota: a request is
\* rejected while quota earlier ones lie within the window
C6_Witness ==
    \E i \in 1..Len(hist) :
        /\ SameStream(i, Len(hist), "sliding_window_log")
        /\ Last.t < hist[i].t + WindowTicks(RuleOf(i))
        /\ Cardinality(Admitted(i, Len(hist))) = RuleOf(i).requests_per_unit
        /\ Decided(Last) /\ ~Last.d.allowed

\* C8: token bucket, no stored bucket state: of n requests at one instant
\* the first capacity ones are admitted with remaining capacity - 1, ..., 0
\* and every further one is rejected.
C8_TokenBurst ==
    \A i \in 1..Len(hist) : \A j \in i..Len(hist) :
        (/\ SameStream(i, j, "token_bucket")
         /\ hist[i].fresh
         /\ \A k \in i..j : hist[k].t = hist[i].t)
        => LET capacity == OrElse(RuleOf(i).bucket_size, RuleOf(i).requests_per_unit)
               n == j - i + 1
           IN  /\ Decided(hist[j])
               /\ n <= capacity => hist[j].d.allowed /\ hist[j].d.remaining = capacity - n
               /\ n > capacity => ~hist[j].d.allowed

\* a burst of capacity + 1 requests from fresh state, the last one rejected
C8_Witness ==
    \E i \in 1..Len(hist) :
        /\ SameStream(i, Len(hist), "token_bucket")
        /\ hist[i].fresh
        /\ Last.t = hist[i].t
        /\ Len(hist) - i = OrElse(RuleOf(i).bucket_size, RuleOf(i).requests_per_unit)
        /\ Len(hist) - i >= 2
        /\ ~Last.d.allowed /\ hist[Len(hist) - 1].d.remaining = 0

\* C9: token bucket: the admissions over any interval of T seconds are at
\* most capacity + T * quota / window_seconds, whatever the idle gaps and
\* the expiry of the bucket keys.
C9_TokenRateBound ==
    \A i \in 1..Len(hist) : \A j \in i..Len(hist) :
        SameStream(i, j, "token_bucket")
        => LET r == RuleOf(i)
               capacity == OrElse(r.bucket_size, r.requests_per_unit)
           IN  (Cardinality(Admitted(i, j)) - capacity) * WindowTicks(r)
                   <= (hist[j].t - hist[i].t) * r.requests_per_unit

\* while the bucket keys live, refill is what admits a request after the
\* burst: an admission from a bucket that was emptied earlier
C9_Witness ==
    \E i \in 1..Len(hist) :
        /\ SameStream(i, Len(hist), "token_bucket")
        /\ hist[i].d.allowed /\ hist[i].d.remaining = 0
        /\ hist[i].t < Last.t /\ Last.t - hist[i].t < IdleGap
        /\ Last.d.allowed

\* C10: leaky bucket, empty queue: of n requests one at a time within a
\* span shorter than 1 / outflow_rate seconds exactly min(n, queue_capacity)
\* are admitted.
C10_LeakyBurstCap ==
    \A i \in 1..Len(hist) : \A j \in i..Len(hist) :
        (/\ SameStream(i, j, "leaky_bucket")
         /\ hist[i].level = 0
         /\ (hist[j].t - hist[i].t) * RuleOf(i).requests_per_unit < WindowTicks(RuleOf(i)))
        => /\ \A k \in i..j : Decided(hist[k])
           /\ Cardinality(Admitted(i, j)) =
                  Min(j - i + 1, OrElse(RuleOf(i).queue_size,
                                        RuleOf(i).requests_per_unit * 2))

\* more requests than the queue holds, spread over a span in which nothing
\* leaks, the last one rejected
C10_Witness ==
    \E i \in 1..Len(hist) :
        /\ SameStream(i, Len(hist), "leaky_bucket")
        /\ hist[i].level = 0
        /\ Last.t > hist[i].t
        /\ (Last.t - hist[i].t) * RuleOf(i).requests_per_unit < WindowTicks(RuleOf(i))
        /\ Len(hist) - i + 1 > OrElse(RuleOf(i).queue_size, RuleOf(i).requests_per_unit * 2)
        /\ ~Last.d.allowed

----------------------------------------------------------------------------
(* SpecConc: gateway instances that share the store and the rule, each     *)
(* running one check_request at a time.  A request reads the clock when    *)
(* its strategy starts and then makes its store round-trips one by one;    *)
(* the round-trips of different requests interleave and time passes        *)
(* between them.                                                           *)

Gateways == {"g1", "g2"}

ConcRules ==
    {TestRule(1, "second", "fixed_window", 0, 0),
     TestRule(2, "second", "fixed_window", 0, 0),
     TestRule(1, "second", "token_bucket", 2, 0),
     TestRule(2, "second", "leaky_bucket", 0, 1),
     TestRule(2, "second", "sliding_window_log", 0, 0),
     TestRule(2, "second", "sliding_window_counter", 0, 0)}

InitConc ==
    /\ clock = 0
    /\ store = NoStore
    /\ rules \in {add_rule(DefaultRules, r) : r \in ConcRules}
    /\ procs = [g \in Gateways |-> <<>>]
    /\ hist = <<>>
    /\ nreq = 0
    /\ nadd = 0
    /\ http = <<>>

\* the outcome of a frame that has ended
Outcome(f, s) == [s |-> s, kind |-> f.kind, d |-> f.d, failed |-> f.failed, ops |-> f.pc]

\* check_request up to its first await: the rule lookup, the limiter and
\* the strategy's time.time(); with no rule it returns at once
Begin(g, client, domain, key_type) ==
    /\ nreq < MaxReq
    /\ procs[g] = <<>>
    /\ \E rule \in {get_rule(rules, domain, key_type)} :
          IF rule = {}
          THEN /\ hist' = Append(hist, [found |-> 0] @@
                                   HistEntry(clock, client, domain, key_type, rule,
                                       check_request(rules, store, client, domain, key_type,
                                                     clock, MaxOps), store))
               /\ procs' = procs
          ELSE /\ procs' = [procs EXCEPT ![g] = <<Frame(client, CHOOSE x \in rule : TRUE, clock)>>]
               /\ hist' = hist
    /\ nreq' = nreq + 1
    /\ UNCHANGED <<clock, store, rules, nadd, http>>

\* the next store round-trip of the request gateway g is running, at the
\* store's current time; the request's decision is recorded when it returns,
\* with the counting state its last round-trip found (ghost)
StepProc(g) ==
    /\ procs[g] # <<>>
    /\ \E r \in {Step(procs[g][1], store, clock)} :
          /\ store' = r.s
          /\ IF r.f.done
             THEN /\ procs' = [procs EXCEPT ![g] = <<>>]
                  /\ hist' = Append(hist,
                              [found |-> Counted(store, r.f.client, r.f.rule, r.f.now)] @@
                              HistEntry(r.f.now, r.f.client, r.f.rule.domain,
                                        r.f.rule.key, {r.f.rule}, Outcome(r.f, r.s), store))
             ELSE /\ procs' = [procs EXCEPT ![g] = <<r.f>>]
                  /\ hist' = hist
    /\ UNCHANGED <<clock, rules, nreq, nadd, http>>

NextConc ==
    \/ Tick(1, MaxTime)
    \/ \E g \in Gateways : Begin(g, Alice, <<"test">>, <<"user_id">>)
    \/ \E g \in Gateways : StepProc(g)

SpecConc == InitConc /\ [][NextConc]_vars

\* the admitted requests of the history that carry request i's rule and
\* client and whose timestamps lie in the aligned window of request i's
InWindowOf(i) ==
    {j \in Admitted(1, Len(hist)) :
        /\ hist[j].rule = hist[i].rule /\ hist[j].client = hist[i].client
        /\ WindowStart(hist[j].t, get_window_seconds(RuleOf(i)))
               = WindowStart(hist[i].t, get_window_seconds(RuleOf(i)))}

\* C7: fixed window: the admissions inside one aligned window never exceed
\* the quota, for every interleaving of the gateways' requests.
C7_FixedWindowQuota ==
    \A i \in 1..Len(hist) :
        (\E r \in hist[i].rule : r.algorithm = "fixed_window")
        => Cardinality(InWindowOf(i)) <= RuleOf(i).requests_per_unit

\* two requests of one window in flight together: one has been rejected at
\* the quota while the other is still waiting for its script
C7_Witness ==
    /\ Len(hist) > 0 /\ Decided(Last) /\ ~Last.d.allowed
    /\ Cardinality(InWindowOf(Len(hist))) = RuleOf(Len(hist)).requests_per_unit
    /\ \E g \in Gateways :
          /\ procs[g] # <<>>
          /\ procs[g][1].now <= Last.t
          /\ WindowStart(procs[g][1].now, get_window_seconds(RuleOf(Len(hist))))
                 = WindowStart(Last.t, get_window_seconds(RuleOf(Len(hist))))

----------------------------------------------------------------------------
(* Claims on the request stream of one client (SpecStream), continued. *)

\* the requests i..j carry timestamps of one aligned window of their rule
OneAlignedWindow(i, j) ==
    \A k \in i..j : WindowStart(hist[k].t, get_window_seconds(RuleOf(i)))
                        = WindowStart(hist[i].t, get_window_seconds(RuleOf(i)))

\* C11: sliding window counter, no counter state: a burst of requests one
\* at a time (shorter than one window) gets at most quota admissions, also
\* across a window boundary; inside one aligned window exactly the first
\* min(n, quota) requests are admitted.
C11_CounterBurst ==
    \A i \in 1..Len(hist) : \A j \in i..Len(hist) :
        (/\ SameStream(i, j, "sliding_window_counter")
         /\ hist[i].fresh
         /\ hist[j].t - hist[i].t < WindowTicks(RuleOf(i)))
        => /\ Cardinality(Admitted(i, j)) <= RuleOf(i).requests_per_unit
           /\ OneAlignedWindow(i, j) =>
                  \A k \in i..j : /\ Decided(hist[k])
                                  /\ hist[k].d.allowed
                                        <=> (k - i + 1 <= RuleOf(i).requests_per_unit)

\* a burst inside one aligned window: quota admissions, then a rejection
C11_Witness ==
    \E i \in 1..Len(hist) :
        /\ SameStream(i, Len(hist), "sliding_window_counter")
        /\ hist[i].fresh
        /\ OneAlignedWindow(i, Len(hist))
        /\ Cardinality(Admitted(i, Len(hist))) = RuleOf(i).requests_per_unit
        /\ Len(hist) - i = RuleOf(i).requests_per_unit
        /\ Decided(Last) /\ ~Last.d.allowed

\* the admitted requests before request j whose timestamps are later than
\* since
AdmittedSince(j, since) == {k \in Admitted(1, j - 1) : hist[k].t > since}

\* C12: sliding window log: after quota admissions at time t every request
\* before t + window_seconds is rejected, and a request made when fewer than
\* quota admissions are younger than window_seconds (the oldest logged one
\* has passed out of the window) is admitted.
C12_LogReadmission ==
    \A j \in 1..Len(hist) :
        SameStream(1, j, "sliding_window_log")
        => /\ \A i \in 1..(j - 1) :
                  (/\ Cardinality({k \in Admitted(1, j - 1) : hist[k].t = hist[i].t})
                          >= RuleOf(j).requests_per_unit
                   /\ hist[j].t < hist[i].t + WindowTicks(RuleOf(j)))
                  => Decided(hist[j]) /\ ~hist[j].d.allowed
           /\ Cardinality(AdmittedSince(j, hist[j].t - WindowTicks(RuleOf(j))))
                  < RuleOf(j).requests_per_unit
              => Decided(hist[j]) /\ hist[j].d.allowed

\* quota admissions, a rejection inside the window, and the admission of
\* the request made window_seconds after the oldest admission
C12_Witness ==
    /\ Len(hist) >= 3
    /\ SameStream(1, Len(hist), "sliding_window_log")
    /\ hist[1].d.allowed
    /\ ~hist[Len(hist) - 1].d.allowed
    /\ Last.t = hist[1].t + WindowTicks(RuleOf(1))
    /\ Last.d.allowed

----------------------------------------------------------------------------
(* SpecIso: several clients under one rule and one store.  Beside the      *)
(* store the history keeps a shadow store that only the observed client's  *)
(* requests act on: what the observed client would get if it were alone.   *)

Bob == ClientIdentifier(<<"bob">>, None, None)

\* a user id that contains a colon and extends Bob's by a strategy suffix
BobTokens == ClientIdentifier(<<"bob", "tokens">>, None, None)

BobWindow == ClientIdentifier(<<"bob", "window">>, None, None)

IsoClients == {Alice, Bob, BobTokens, BobWindow}

\* the keys a strategy derives from a base key: the base key followed by one
\* of the well-known suffixes; a window suffix ends with the window start, a
\* number of seconds that is not later than the clock
UnderBase(base, k) ==
    /\ IsPrefix(base, k)
    /\ \/ /\ Len(k) = Len(base) + 1
          /\ k[Len(k)] \in {"tokens", "timestamp", "queue", "last_leak", "log"}
       \/ /\ Len(k) = Len(base) + 2
          /\ k[Len(base) + 1] = "window"
          /\ \E n \in 0..clock : k[Len(k)] = ToString(n)

\* the keys whose entry differs between two stores
Changed(s1, s2) ==
    {k \in (DOMAIN s1) \cup (DOMAIN s2) :
        \/ k \notin DOMAIN s1
        \/ k \notin DOMAIN s2
        \/ s1[k] # s2[k]}

ShadowOf(h, t) == IF h = <<>> THEN NoStore ELSE Purge(h[Len(h)].shadow, t)

IsoEntry(client, rule, out, alone, changed) ==
    [client |-> client, rule |-> rule, kind |-> out.kind, d |-> out.d,
     alone_kind |-> alone.kind, alone_d |-> alone.d, shadow |-> alone.s,
     changed |-> changed]

InitIso ==
    /\ clock = 0
    /\ store = NoStore
    /\ rules \in {add_rule(DefaultRules, r) : r \in SpecRules}
    /\ procs = <<>>
    /\ hist = <<>>
    /\ nreq = 0
    /\ nadd = 0
    /\ http = <<>>

\* check_request of one of the clients; the observed client's request is
\* also run against the shadow store
IsoRequest(client, observed, domain, key_type) ==
    /\ nreq < MaxReq
    /\ \E out \in {check_request(rules, store, client, domain, key_type, clock, MaxOps)} :
       \E alone \in {IF client = observed
                     THEN check_request(rules, ShadowOf(hist, clock), client, domain,
                                        key_type, clock, MaxOps)
                     ELSE [s |-> ShadowOf(hist, clock), kind |-> out.kind, d |-> out.d,
                           failed |-> FALSE, ops |-> 0]} :
          /\ store' = out.s
          /\ hist' = <<IsoEntry(client, get_rule(rules, domain, key_type), out, alone,
                                Changed(store, out.s))>>
    /\ nreq' = nreq + 1
    /\ UNCHANGED <<clock, rules, procs, nadd, http>>

NextIso ==
    \/ Tick(1, OneWindow)
    \/ \E c \in IsoClients : IsoRequest(c, Bob, <<"test">>, <<"user_id">>)

SpecIso == InitIso /\ [][NextIso]_vars


\* C13: key isolation: a check_request changes no store key under a base
\* key different from its client's, and the decisions the observed client
\* receives are those it receives when it is alone, whenever no other
\* client shares its base key.
C13_KeyIsolation ==
    hist # <<>> =>
        /\ \A c \in IsoClients : \A r \in Last.rule :
               get_key(c, r) # get_key(Last.client, r)
               => \A k \in Last.changed : ~UnderBase(get_key(c, r), k)
        /\ (/\ Last.client = Bob
            /\ \A c \in IsoClients \ {Bob} : \A r \in Last.rule :
                   get_key(c, r) # get_key(Bob, r))
           => Last.kind = Last.alone_kind /\ Last.d = Last.alone_d

\* the observed client is admitted from its own untouched state while
\* another client has just been rejected at the same instant
C13_Witness ==
    /\ hist # <<>>
    /\ Last.client = Bob /\ Last.kind = "decision" /\ Last.d.allowed
    /\ Last.changed # {}
    /\ \E c \in IsoClients \ {Bob} : \E r \in Last.rule :
          \E k \in DOMAIN store :
              /\ UnderBase(get_key(c, r), k)
              /\ r.algorithm = "fixed_window"
              /\ store[k].val >= r.requests_per_unit

----------------------------------------------------------------------------
(* SpecReg: the rule registry under the admin endpoint, with requests of   *)
(* one client in between.  The history logs every add_rule call and every  *)
(* check_request; http holds the admin endpoint's last request and answer. *)

AdminRequest(domain, key, requests_per_unit, unit, algorithm) ==
    [domain |-> domain, key |-> key, requests_per_unit |-> requests_per_unit,
     unit |-> unit, algorithm |-> algorithm]

\* the rule the endpoint builds from a request it accepts
RequestRule(req) ==
    RateLimitRule(req.domain, req.key, req.requests_per_unit, req.unit,
                  req.algorithm, 0, 0)

AdminRequests ==
    {AdminRequest(<<"test">>, <<"user_id">>, 2, "second", "fixed_window"),
     AdminRequest(<<"test">>, <<"user_id">>, 1, "second", "fixed_window"),
     AdminRequest(<<"test">>, <<"user_id">>, 1, "second", "token_bucket"),
     AdminRequest(<<"test">>, <<"user_id">>, 2, "second", "sliding_window_counter"),
     AdminRequest(<<"auth">>, <<"user_id">>, 1, "second", "fixed_window"),
     AdminRequest(<<"a">>, <<"b", "c">>, 1, "second", "fixed_window"),
     AdminRequest(<<"test">>, <<"user_id">>, 0, "second", "fixed_window"),
     AdminRequest(<<"test">>, <<"user_id">>, 1, "fortnight", "fixed_window"),
     AdminRequest(<<"test">>, <<"user_id">>, 1, "second", "bogus")}

AdminIdle == [req |-> <<>>, status |-> 0]

InitReg ==
    /\ clock = 0
    /\ store = NoStore
    /\ rules = DefaultRules
    /\ procs = <<>>
    /\ hist = <<>>
    /\ nreq = 0
    /\ nadd = 0
    /\ http = AdminIdle

\* POST /rules/add: TimeUnit(unit), RateLimitAlgorithm(algorithm) and the
\* RateLimitRule constructor raise ValueError on a bad parameter, which is
\* answered 400 before add_rule is reached
AdminAddRule(req) ==
    /\ nadd < MaxAdd
    /\ nadd' = nadd + 1
    /\ IF ValidRule(RequestRule(req))
       THEN /\ rules' = add_rule(rules, RequestRule(req))
            /\ hist' = Append(hist, [op |-> "add", rule |-> RequestRule(req)])
            /\ http' = [req |-> req, status |-> 200]
       ELSE /\ http' = [req |-> req, status |-> 400]
            /\ UNCHANGED <<rules, hist>>
    /\ UNCHANGED <<clock, store, procs, nreq>>

\* check_request, logged
RegCheck(client, domain, key_type) ==
    /\ nreq < MaxReq
    /\ nreq' = nreq + 1
    /\ \E out \in {check_request(rules, store, client, domain, key_type, clock, MaxOps)} :
          /\ store' = out.s
          /\ hist' = Append(hist, [op |-> "check"] @@
                            HistEntry(clock, client, domain, key_type,
                                      get_rule(rules, domain, key_type), out, store))
    /\ UNCHANGED <<clock, rules, procs, nadd, http>>

\* the clock steps from the first window of the rules to the second
NextReg ==
    \/ Tick(OneWindow, OneWindow)
    \/ \E req \in AdminRequests : AdminAddRule(req)
    \/ RegCheck(Alice, <<"test">>, <<"user_id">>)

SpecReg == InitReg /\ [][NextReg]_vars

\* the rule of the latest add_rule call of the history h for (domain,
\* key_type), as a set: empty when there was no such call
LastAdded(h, domain, key_type) ==
    LET adds == {i \in 1..Len(h) : /\ h[i].op = "add"
                                   /\ h[i].rule.domain = domain
                                   /\ h[i].rule.key = key_type}
    IN  {h[i].rule : i \in {a \in adds : \A b \in adds : b <= a}}

\* the fixed-window counter of a client's current window
WindowCount(s, client, rule, now) ==
    GetOr(s, WindowKey(get_key(client, rule),
                       WindowStart(now, get_window_seconds(rule))), 0)

\* C14: after add_rule has replaced the rule of (domain, key_type) the next
\* check_request is decided under the new rule against the counter state
\* that exists: under a fixed-window rule it is rejected if the counter of
\* the current window has reached the new quota, and otherwise admitted and
\* counted on top of it.
C14_ReplacedRuleDecides ==
    [][nreq' = nreq + 1 =>
        LET e == hist'[Len(hist')]
        IN  \A new \in LastAdded(hist, e.domain, e.key_type) :
               /\ Decided(e)
               /\ e.d.algorithm = new.algorithm
               /\ new.algorithm = "fixed_window" =>
                    LET count == WindowCount(store, e.client, new, clock)
                    IN  /\ count >= new.requests_per_unit => ~e.d.allowed /\ store' = store
                        /\ count < new.requests_per_unit =>
                              /\ e.d.allowed
                              /\ WindowCount(store', e.client, new, clock) = count + 1
    ]_vars

\* a request admitted under quota 2, the rule replaced by quota 1, and the
\* next request rejected against the counter the first request left
C14_Witness ==
    \E i \in 1..(Len(hist) - 3) :
        /\ hist[i].op = "add" /\ hist[i + 1].op = "check"
        /\ hist[i + 2].op = "add" /\ hist[i + 3].op = "check"
        /\ hist[i].rule.algorithm = "fixed_window" /\ hist[i].rule.requests_per_unit = 2
        /\ hist[i + 2].rule.algorithm = "fixed_window"
        /\ hist[i + 2].rule.requests_per_unit = 1
        /\ hist[i + 2].rule.domain = hist[i].rule.domain
        /\ hist[i + 1].d.allowed /\ hist[i + 1].t = hist[i + 3].t
        /\ ~hist[i + 3].d.allowed /\ hist[i + 3].d.limit = 1

\* the (domain, key_type) pairs looked up in the registry
RegKeys ==
    {<<<<"test">>, <<"user_id">>>>, <<<<"auth">>, <<"user_id">>>>,
     <<<<"api">>, <<"ip_address">>>>, <<<<"messaging">>, <<"user_id">>>>,
     <<<<"nonexistent">>, <<"user_id">>>>,
     <<<<"a">>, <<"b", "c">>>>, <<<<"a", "b">>, <<"c">>>>}

\* the rule _load_default_rules added for (domain, key_type), as a set
DefaultAdded(domain, key_type) ==
    {r \in {DefaultRules[k] : k \in DOMAIN DefaultRules} :
        r.domain = domain /\ r.key = key_type}

\* C15: get_rule(domain, key_type) returns the rule most recently added with
\* that (domain, key_type), nothing if none was ever added; entries of other
\* pairs are left as they were and none is removed.
C15_RegistryLatest ==
    \A p \in RegKeys :
        get_rule(rules, p[1], p[2]) =
            IF LastAdded(hist, p[1], p[2]) # {}
            THEN LastAdded(hist, p[1], p[2])
            ELSE DefaultAdded(p[1], p[2])

\* a replaced entry: two rules added for one pair, the later one returned,
\* the default rule of another pair still in place
C15_Witness ==
    \E i, j \in 1..Len(hist) :
        /\ i < j /\ hist[i].op = "add" /\ hist[j].op = "add"
        /\ hist[i].rule.domain = hist[j].rule.domain
        /\ hist[i].rule.key = hist[j].rule.key
        /\ hist[i].rule # hist[j].rule
        /\ get_rule(rules, hist[j].rule.domain, hist[j].rule.key) = {hist[j].rule}
        /\ get_rule(rules, <<"api">>, <<"ip_address">>)
               = DefaultAdded(<<"api">>, <<"ip_address">>)

\* C16: an admin add-rule request with a quota <= 0, a unit that is not
\* second, minute, hour or day, or an algorithm that is not one of the five
\* is answered 400 and leaves the registry as it was.
C16_InvalidRuleRejected ==
    [][(/\ nadd' = nadd + 1
        /\ \/ http'.req.requests_per_unit <= 0
           \/ http'.req.unit \notin {"second", "minute", "hour", "day"}
           \/ http'.req.algorithm \notin {"token_bucket", "leaky_bucket", "fixed_window",
                                         "sliding_window_log", "sliding_window_counter"})
       => http'.status = 400 /\ rules' = rules
    ]_vars

\* a request with quota 0 answered 400 after a rule had been added
C16_Witness ==
    /\ http.status = 400
    /\ http.req.requests_per_unit = 0
    /\ \E i \in 1..Len(hist) : hist[i].op = "add"

----------------------------------------------------------------------------
(* Claims on the middleware (SpecMw), continued. *)

\* C17: a rejection is answered 429 without invoking the downstream
\* handler, an admission invokes it exactly once; the limit and remaining
\* headers are on both answers and the retry-after header exactly on
\* rejections.
C17_MiddlewareOutcome ==
    (http.path # None /\ http.path # HealthPath) =>
        /\ hist # <<>> /\ Decided(Last)
        /\ ~Last.d.allowed => http.resp.status = 429 /\ http.resp.forwarded = 0
        /\ Last.d.allowed => http.resp.forwarded = 1 /\ http.resp.status # 429
        /\ http.resp.headers.limit = {Last.d.limit}
        /\ http.resp.headers.remaining = {Last.d.remaining}
        /\ (http.resp.headers.retry_after # {}) <=> ~Last.d.allowed

\* a rejected request: 429, not forwarded, with all three headers
C17_Witness ==
    /\ http.path = <<"api", "data">>
    /\ ~Last.d.allowed
    /\ http.resp.status = 429 /\ http.resp.forwarded = 0
    /\ http.resp.headers.retry_after # {} /\ http.resp.headers.limit # {}

\* C18: a request to /health is forwarded without a rate-limit check: it
\* is not answered 429 and leaves the registry and every store key as they
\* were, whatever the client's counter state.
C18_HealthBypass ==
    [][(http'.path = HealthPath /\ http' # http)
       => /\ http'.resp.status # 429 /\ http'.resp.forwarded = 1
          /\ http'.resp.headers = NoHeaders
          /\ rules' = rules /\ store' = store /\ hist' = hist
    ]_vars

\* a health probe answered 200 while the client's bucket is empty
C18_Witness ==
    /\ http.path = HealthPath /\ http.resp.status = 200
    /\ http.seen429
    /\ \E k \in DOMAIN store : store[k].val < TokenUnit /\ k[Len(k)] = "tokens"

----------------------------------------------------------------------------
(* Claims on the decisions' fields and on key derivation. *)

\* C19: the limit of a decision made under a rule equals the rule's quota,
\* for every algorithm, also when the bucket or queue capacity differs from
\* the quota.
C19_LimitIsQuota ==
    \A i \in 1..Len(hist) :
        (Decided(hist[i]) /\ hist[i].rule # {})
        => hist[i].d.limit = RuleOf(i).requests_per_unit
           /\ to_headers(hist[i].d).limit = {RuleOf(i).requests_per_unit}

\* the window strategies report the quota, on admissions and rejections
C19_Witness ==
    /\ Len(hist) >= 2
    /\ \E r \in Last.rule : r.algorithm \in {"sliding_window_log", "sliding_window_counter"}
    /\ Decided(Last) /\ ~Last.d.allowed /\ hist[1].d.allowed
    /\ \A i \in 1..Len(hist) : hist[i].d.limit = RuleOf(i).requests_per_unit

(* SpecKey: ClientIdentifier.get_key applied to clients and rules drawn    *)
(* from small sets; the history holds the call and, once made, its result. *)

KeyFields == {None, <<"">>, <<"u1">>, <<"anonymous">>}

KeyClients ==
    {ClientIdentifier(u, i, e) : u \in KeyFields, i \in {None, <<"">>, <<"10.0.0.1">>},
                                 e \in {None, <<"">>, <<"api", "data">>}}

KeyRules ==
    {RateLimitRule(d, k, 1, "second", "fixed_window", 0, 0) :
        d \in {<<"auth">>, <<"a", "b">>},
        k \in {<<"user_id">>, <<"ip_address">>, <<"endpoint">>, <<"session">>}}

InitKey ==
    /\ clock = 0
    /\ store = NoStore
    /\ rules = DefaultRules
    /\ procs = <<>>
    /\ hist \in {<<[client |-> client, rule |-> rule, called |-> FALSE, key |-> None]>> :
                     client \in KeyClients, rule \in KeyRules}
    /\ nreq = 0
    /\ nadd = 0
    /\ http = <<>>

GetKey ==
    /\ ~hist[1].called
    /\ hist' = <<[hist[1] EXCEPT !.called = TRUE,
                                 !.key = get_key(hist[1].client, hist[1].rule)]>>
    /\ UNCHANGED <<clock, store, rules, procs, nreq, nadd, http>>

NextKey == GetKey

SpecKey == InitKey /\ [][NextKey]_vars

\* the client field a key_type names, None if it names none of the three
NamedField(client, key_type) ==
    CASE key_type = <<"user_id">> -> client.user_id
      [] key_type = <<"ip_address">> -> client.ip_address
      [] key_type = <<"endpoint">> -> client.endpoint
      [] OTHER -> None

\* C20: get_key returns "rate_limit:{domain}:{key_type}:{identifier}", the
\* identifier being the client field named by key_type if and only if that
\* field is present and non-empty, and "anonymous" in every other case.
C20_KeyDerivation ==
    \A i \in 1..Len(hist) :
        LET field == NamedField(hist[i].client, hist[i].rule.key)
            identifier == IF field # None /\ field # <<"">> THEN field
                          ELSE <<"anonymous">>
        IN  hist[i].called =>
            hist[i].key = <<"rate_limit">> \o hist[i].rule.domain
                              \o hist[i].rule.key \o identifier

\* a key_type that names no field and an empty named field both fall back
\* to "anonymous"; here the empty user id
C20_Witness ==
    /\ hist # <<>> /\ hist[1].called
    /\ hist[1].rule.key = <<"user_id">>
    /\ hist[1].client.user_id = <<"">>
    /\ hist[1].client.ip_address # None
    /\ hist[1].key = <<"rate_limit", "auth", "user_id", "anonymous">>

----------------------------------------------------------------------------
(* Claims on the bucket strategies' capacities (SpecStream). *)

\* the capacity a rule gives its strategy: the value the rule sets, or the
\* strategy's default where the rule sets none
CapacityOf(rule) ==
    IF rule.algorithm = "token_bucket"
    THEN (IF rule.bucket_size > 0 THEN rule.bucket_size ELSE rule.requests_per_unit)
    ELSE (IF rule.queue_size > 0 THEN rule.queue_size ELSE 2 * rule.requests_per_unit)

BucketAlgorithms == {"token_bucket", "leaky_bucket"}

\* C21: token bucket works with capacity = quota when the rule sets no
\* bucket size, leaky bucket with queue capacity = 2 * quota when the rule
\* sets no queue size, and each with the positive value the rule sets: the
\* capacity is what the decision reports and what a burst at one instant
\* from an untouched bucket or queue gets admitted.
C21_CapacityDefaults ==
    \A i \in 1..Len(hist) : \A j \in i..Len(hist) :
        (/\ \E a \in BucketAlgorithms : SameStream(i, j, a)
         /\ hist[i].fresh
         /\ hist[j].t = hist[i].t)
        => /\ Decided(hist[j])
           /\ hist[j].d.limit = CapacityOf(RuleOf(i))
           /\ Cardinality(Admitted(i, j)) = Min(j - i + 1, CapacityOf(RuleOf(i)))
           /\ hist[j].d.remaining = CapacityOf(RuleOf(i)) - Cardinality(Admitted(i, j))

\* a leaky-bucket rule without queue size: the burst fills 2 * quota slots
\* and the next request is rejected
C21_Witness ==
    /\ Len(hist) = 3
    /\ SameStream(1, 3, "leaky_bucket")
    /\ RuleOf(1).queue_size = 0
    /\ hist[1].fresh /\ hist[3].t = hist[1].t
    /\ Cardinality(Admitted(1, 3)) = 2 * RuleOf(1).requests_per_unit
    /\ ~hist[3].d.allowed

----------------------------------------------------------------------------
(* Claims on what one request does to the store (SpecStream). *)

\* C22: one check_request, processed on its own, advances the client's
\* counting state by at most one unit, and by zero units when its decision
\* is a rejection, for every algorithm.
C22_OneUnitPerRequest ==
    [][nreq' = nreq + 1 =>
          \A rule \in get_rule(rules, <<"test">>, <<"user_id">>) :
              LET before == Counted(store, Alice, rule, clock)
                  after == Counted(store', Alice, rule, clock)
                  e == hist'[Len(hist')]
              IN  /\ after - before <= CountUnit(rule)
                  /\ after >= before
                  /\ (Decided(e) /\ ~e.d.allowed) => after = before
                  /\ (Decided(e) /\ e.d.allowed /\ rule.algorithm # "sliding_window_log")
                        => after - before = CountUnit(rule)]_vars

\* a rejection that costs nothing, after an admission, time having passed
\* in between: a token-bucket rejection on a partly refilled bucket
C22_Witness ==
    /\ Len(hist) >= 2
    /\ SameStream(1, Len(hist), "token_bucket")
    /\ Decided(Last) /\ ~Last.d.allowed
    /\ Last.t > hist[Len(hist) - 1].t
    /\ hist[Len(hist) - 1].d.allowed
    /\ store[get_key(Alice, RuleOf(1)) \o <<"tokens">>].val \in 1..(TokenUnit - 1)

----------------------------------------------------------------------------
(* Claims on concurrent requests to one client key (SpecConc). *)

\* the admitted requests under request i's rule and client whose timestamps
\* lie in [hist[i].t, hist[i].t + span), span in ticks
AdmittedWithin(i, span) ==
    {k \in Admitted(1, Len(hist)) :
        /\ hist[k].rule = hist[i].rule /\ hist[k].client = hist[i].client
        /\ hist[i].t <= hist[k].t /\ hist[k].t < hist[i].t + span}

\* the time in which one queued request leaks, 1 / outflow_rate, in ticks
\* (rounded up)
LeakTicks(rule) == CeilDiv(WindowTicks(rule), rule.requests_per_unit)

\* no request is in flight
Quiet == \A g \in Gateways : procs[g] = <<>>

\* C23: leaky bucket, concurrent requests to one key: the admissions made
\* within a span in which nothing leaks never exceed the queue capacity,
\* and the stored queue count is the number of admitted requests that have
\* not leaked (checked when no request is in flight and no admitted request
\* can have leaked yet).
C23_LeakyConcurrent ==
    \A i \in 1..Len(hist) :
        (\E r \in hist[i].rule : r.algorithm = "leaky_bucket")
        => /\ Cardinality(AdmittedWithin(i, LeakTicks(RuleOf(i))))
                  <= OrElse(RuleOf(i).queue_size, RuleOf(i).requests_per_unit * 2)
           /\ (/\ Quiet
               /\ \A k \in 1..Len(hist) : hist[k].t = hist[1].t
               /\ clock < hist[1].t + LeakTicks(RuleOf(i)))
              => GetOr(store, get_key(hist[i].client, RuleOf(i)) \o <<"queue">>, 0)
                     = Cardinality(Admitted(1, Len(hist)))

\* two overlapping requests of which the store made one wait for the other:
\* the queue is full, a request has been rejected and another one, started
\* no later, is still in flight
C23_Witness ==
    /\ Len(hist) > 0 /\ Decided(Last) /\ ~Last.d.allowed
    /\ \E r \in Last.rule : r.algorithm = "leaky_bucket"
    /\ Cardinality(AdmittedWithin(Len(hist), LeakTicks(RuleOf(Len(hist)))))
           <= OrElse(RuleOf(Len(hist)).queue_size, RuleOf(Len(hist)).requests_per_unit * 2)
    /\ \E g \in Gateways : procs[g] # <<>> /\ procs[g][1].now <= Last.t /\ procs[g][1].pc >= 1

\* the rule the gateways serve
ConcRule == CHOOSE r \in get_rule(rules, <<"test">>, <<"user_id">>) : TRUE

\* C24: sliding window counter, concurrent requests to one key: no window
\* counter of the key exceeds the quota, and the admissions with timestamps
\* in one aligned window never exceed the quota.
C24_CounterConcurrent ==
    ConcRule.algorithm = "sliding_window_counter"
    => /\ \A k \in DOMAIN store :
              IsPrefix(get_key(Alice, ConcRule) \o <<"window">>, k)
              => store[k].val <= ConcRule.requests_per_unit
       /\ \A i \in 1..Len(hist) :
              Cardinality(InWindowOf(i)) <= ConcRule.requests_per_unit

\* overlapping requests held to the quota: one request has incremented the
\* window's counter to the quota and has not returned yet, while another
\* request of the same window has read the counter at the quota
C24_Witness ==
    /\ ConcRule.algorithm = "sliding_window_counter"
    /\ Len(hist) > 0 /\ Last.d.allowed
    /\ \E g, h \in Gateways :
          /\ procs[g] # <<>> /\ procs[g][1].pc = 3
          /\ procs[h] # <<>> /\ procs[h][1].pc = 2
          /\ procs[h][1].a = ConcRule.requests_per_unit
          /\ procs[h][1].now = procs[g][1].now
          /\ GetOr(store, WindowKey(get_key(Alice, ConcRule),
                       WindowStart(procs[g][1].now, get_window_seconds(ConcRule))), 0)
                 = ConcRule.requests_per_unit

\* C25: sliding window log, concurrent requests to one key: the admissions
\* with timestamps inside one window of window_seconds never exceed the
\* quota.
C25_LogConcurrent ==
    \A i \in 1..Len(hist) :
        (\E r \in hist[i].rule : r.algorithm = "sliding_window_log")
        => Cardinality(AdmittedWithin(i, WindowTicks(RuleOf(i))))
               <= RuleOf(i).requests_per_unit

\* overlapping requests held to the quota: the log holds quota members
\* while a request that started no later than the last admitted one has
\* counted them and is on its way to a rejection
C25_Witness ==
    /\ ConcRule.algorithm = "sliding_window_log"
    /\ Len(hist) > 0 /\ Last.d.allowed
    /\ ZCard(store, get_key(Alice, ConcRule) \o <<"log">>) = ConcRule.requests_per_unit
    /\ \E g \in Gateways :
          /\ procs[g] # <<>> /\ procs[g][1].pc = 1
          /\ procs[g][1].now <= Last.t
          /\ Last.t < procs[g][1].now + WindowTicks(ConcRule)

\* the whole tokens request i's script found in the bucket, refilled up to
\* the request's timestamp
TokensFound(i) ==
    (OrElse(RuleOf(i).bucket_size, RuleOf(i).requests_per_unit) * TokenUnit - hist[i].found)
        \div TokenUnit

\* C26: token bucket, concurrent requests: of k requests with one timestamp
\* whose scripts run one after another against a bucket that holds m whole
\* tokens, exactly min(k, m) are admitted, the first ones, each with one
\* token less remaining.
C26_TokenConcurrent ==
    \A i \in 1..Len(hist) : \A j \in i..Len(hist) :
        (/\ SameStream(i, j, "token_bucket")
         /\ \A k \in i..j : hist[k].t = hist[i].t)
        => LET m == Max(TokensFound(i), 0)
               n == j - i + 1
           IN  /\ \A k \in i..j : Decided(hist[k])
               /\ Cardinality(Admitted(i, j)) = Min(n, m)
               /\ n <= m => hist[j].d.allowed /\ hist[j].d.remaining = m - n
               /\ n > m => ~hist[j].d.allowed

\* two requests with one timestamp against a bucket that an earlier request
\* left with one whole token: the first is admitted, the second rejected
C26_Witness ==
    /\ Len(hist) = 3 /\ Quiet
    /\ SameStream(1, 3, "token_bucket")
    /\ hist[1].t < hist[2].t /\ hist[2].t = hist[3].t
    /\ TokensFound(2) = 1
    /\ hist[2].d.allowed /\ ~hist[3].d.allowed

----------------------------------------------------------------------------
(* SpecRetry: one client under one fixed rule, requests processed one at a *)
(* time with a healthy store; a rejected client may wait for the time its  *)
(* decision names and then send its next request.                          *)

RetryRules ==
    {TestRule(1, "second", "token_bucket", 0, 0),
     TestRule(2, "second", "token_bucket", 1, 0),
     TestRule(1, "day", "token_bucket", 0, 0),
     TestRule(1, "second", "leaky_bucket", 0, 0),
     TestRule(2, "minute", "leaky_bucket", 0, 1),
     TestRule(2, "second", "fixed_window", 0, 0),
     TestRule(2, "minute", "fixed_window", 0, 0),
     TestRule(2, "second", "sliding_window_log", 0, 0),
     TestRule(2, "minute", "sliding_window_log", 0, 0),
     TestRule(2, "second", "sliding_window_counter", 0, 0),
     TestRule(2, "minute", "sliding_window_counter", 0, 0)}

InitRetry ==
    /\ clock = 0
    /\ store = NoStore
    /\ rules \in {add_rule(DefaultRules, r) : r \in RetryRules}
    /\ procs = <<>>
    /\ hist = <<>>
    /\ nreq = 0
    /\ nadd = 0
    /\ http = <<>>

\* the client of the last, rejected request sends nothing for the
\* retry_after seconds of its decision and then sends one request
RetryAfter(client, domain, key_type) ==
    /\ hist # <<>> /\ Len(hist) <= MaxReq
    /\ Decided(Last) /\ ~Last.d.allowed
    /\ Last.client = client /\ Last.domain = domain /\ Last.key_type = key_type
    /\ \E r \in Last.d.retry_after :
       \E now \in {clock + r * TicksPerSec} :
       \E out \in {check_request(rules, Purge(store, now), client, domain, key_type,
                                 now, MaxOps)} :
          /\ clock' = now
          /\ store' = out.s
          /\ hist' = Append(hist, HistEntry(now, client, domain, key_type,
                                    get_rule(rules, domain, key_type), out,
                                    Purge(store, now)))
    /\ UNCHANGED <<rules, procs, nreq, nadd, http>>

NextRetry ==
    \/ Tick(1, MaxTime)
    \/ CheckRequest(Alice, <<"test">>, <<"user_id">>, MaxOps, TRUE)
    \/ RetryAfter(Alice, <<"test">>, <<"user_id">>)

SpecRetry == InitRetry /\ [][NextRetry]_vars

\* request i + 1 is the first request of request i's client after it was
\* rejected, made when exactly its retry_after seconds have passed
RetryOf(i) ==
    /\ i < Len(hist)
    /\ Decided(hist[i]) /\ ~hist[i].d.allowed
    /\ hist[i + 1].client = hist[i].client /\ hist[i + 1].rule = hist[i].rule
    /\ \E r \in hist[i].d.retry_after : hist[i + 1].t = hist[i].t + r * TicksPerSec

\* C27: for every algorithm, the request a rejected client sends after
\* staying silent for the retry_after seconds of its rejection is admitted.
C27_RetryHintSufficient ==
    \A i \in 1..Len(hist) :
        RetryOf(i) => Decided(hist[i + 1]) /\ hist[i + 1].d.allowed

\* a retry that is admitted: a fixed-window client rejected in a window of
\* one minute waits out the window
C27_Witness ==
    \E i \in 1..Len(hist) :
        /\ RetryOf(i)
        /\ RuleOf(i).algorithm = "fixed_window" /\ RuleOf(i).unit = "minute"
        /\ hist[i + 1].d.allowed

----------------------------------------------------------------------------
(* SpecLeak: one client under one leaky-bucket rule, requests processed    *)
(* one at a time with a healthy store, the whole sequence of decisions     *)
(* kept; the client sends enough requests to fill a queue of two slots     *)
(* twice, and the clock runs past the life of the queue keys.              *)

LeakRules ==
    {TestRule(1, "second", "leaky_bucket", 0, 0),
     TestRule(2, "second", "leaky_bucket", 0, 1),
     TestRule(2, "second", "leaky_bucket", 0, 0)}

MaxLeakReq == MaxReq + 1

InitLeak ==
    /\ clock = 0
    /\ store = NoStore
    /\ rules \in {add_rule(DefaultRules, r) : r \in LeakRules}
    /\ procs = <<>>
    /\ hist = <<>>
    /\ nreq = 0
    /\ nadd = 0
    /\ http = <<>>

\* RateLimiterService.check_request, processed on its own
LeakRequest(client, domain, key_type) ==
    /\ nreq < MaxLeakReq
    /\ \E out \in {check_request(rules, store, client, domain, key_type, clock, MaxOps)} :
          /\ store' = out.s
          /\ hist' = Append(hist, HistEntry(clock, client, domain, key_type,
                                    get_rule(rules, domain, key_type), out, store))
    /\ nreq' = nreq + 1
    /\ UNCHANGED <<clock, rules, procs, nadd, http>>

NextLeak ==
    \/ Tick(1, MaxTime)
    \/ LeakRequest(Alice, <<"test">>, <<"user_id">>)

SpecLeak == InitLeak /\ [][NextLeak]_vars

\* C28: leaky bucket, requests one at a time: the admissions over any
\* interval of T seconds are at most queue_capacity + floor(T * quota /
\* window_seconds), also when the queue keys expire in between.
C28_LeakyRateBound ==
    \A i \in 1..Len(hist) : \A j \in i..Len(hist) :
        SameStream(i, j, "leaky_bucket")
        => LET r == RuleOf(i)
               queue_size == OrElse(r.queue_size, r.requests_per_unit * 2)
           IN  (Cardinality(Admitted(i, j)) - queue_size) * WindowTicks(r)
                   <= (hist[j].t - hist[i].t) * r.requests_per_unit

\* a request admitted after the queue keys have expired, everything that
\* was queued having leaked by then: the bound holds over the whole history
C28_Witness ==
    /\ Len(hist) >= 2
    /\ SameStream(1, Len(hist), "leaky_bucket")
    /\ hist[1].d.allowed
    /\ Last.fresh /\ Last.d.allowed
    /\ Last.t > hist[1].t + WindowTicks(RuleOf(1))
    /\ \A i \in 1..Len(hist) : \A j \in i..Len(hist) :
          (Cardinality(Admitted(i, j))
               - OrElse(RuleOf(1).queue_size, RuleOf(1).requests_per_unit * 2))
              * WindowTicks(RuleOf(1))
          <= (hist[j].t - hist[i].t) * RuleOf(1).requests_per_unit

----------------------------------------------------------------------------
(* Claims on the strategies' keys (SpecReg). *)

\* no earlier check of the history was decided by the given algorithm
FirstUseOf(algorithm) ==
    \A i \in 1..Len(hist) :
        hist[i].op = "check" => \A x \in hist[i].rule : x.algorithm # algorithm

\* C29: the strategies share no state: the first request decided by an
\* algorithm, whatever other algorithms have served the same (domain,
\* key_type) and client before, is decided as on an empty store, and it
\* writes the keys it would write on an empty store and touches no key that
\* exists.
C29_StrategiesShareNoState ==
    [][nreq' = nreq + 1 =>
        LET e == hist'[Len(hist')]
            alone == check_request(rules, NoStore, e.client, e.domain, e.key_type,
                                   clock, MaxOps)
        IN  \A r \in e.rule :
                FirstUseOf(r.algorithm)
                => /\ e.kind = alone.kind /\ e.d = alone.d
                   /\ DOMAIN alone.s \cap DOMAIN store = {}
                   /\ store' = alone.s @@ store
    ]_vars

\* a token bucket that replaces a fixed window starts full, next to the
\* fixed window's counter
C29_Witness ==
    \E i \in 1..(Len(hist) - 1) :
        /\ hist[i].op = "check" /\ Last.op = "check"
        /\ \E x \in hist[i].rule : x.algorithm = "fixed_window"
        /\ \E x \in Last.rule : x.algorithm = "token_bucket"
        /\ hist[i].d.allowed /\ Last.t = hist[i].t
        /\ Last.d.allowed /\ Last.d.remaining = Last.d.limit - 1
        /\ \E k \in DOMAIN store : IsPrefix(get_key(Alice, RuleOf(i)) \o <<"window">>, k)

----------------------------------------------------------------------------
(* Claims on the store adapter's scripts (SpecStream). *)

\* C30: incr_with_limit gives the counter key a TTL of window_seconds on the
\* increment that creates it and on no other call: a later increment and a
\* rejected call leave the key's expiry time as it was (and every other key
\* untouched).
C30_TtlOnFirstIncrement ==
    [][nreq' = nreq + 1 =>
        \A rule \in get_rule(rules, <<"test">>, <<"user_id">>) :
            rule.algorithm = "fixed_window" =>
                LET key == WindowKey(get_key(Alice, rule),
                                     WindowStart(clock, get_window_seconds(rule)))
                    e == hist'[Len(hist')]
                IN  /\ \A k \in DOMAIN store \ {key} : k \in DOMAIN store' /\ store'[k] = store[k]
                    /\ DOMAIN store' \subseteq DOMAIN store \cup {key}
                    /\ key \notin DOMAIN store
                          => /\ e.d.allowed
                             /\ store'[key].val = 1
                             /\ store'[key].exp = {clock + WindowTicks(rule)}
                    /\ key \in DOMAIN store
                          => /\ store'[key].exp = store[key].exp
                             /\ store'[key].val = store[key].val + (IF e.d.allowed THEN 1 ELSE 0)
    ]_vars

\* a counter created at one time, incremented at a later time and then
\* called at the limit, still expiring window_seconds after its creation
C30_Witness ==
    /\ Len(hist) = 3
    /\ SameStream(1, 3, "fixed_window")
    /\ hist[1].d.allowed /\ hist[2].d.allowed /\ ~hist[3].d.allowed
    /\ hist[1].t < hist[2].t /\ hist[2].t < hist[3].t
    /\ \E k \in DOMAIN store :
          store[k].val = 2 /\ store[k].exp = {hist[1].t + WindowTicks(RuleOf(1))}

----------------------------------------------------------------------------
(* Claims on the window strategies, requests one at a time (SpecStream). *)

\* the index of the aligned window of request i's rule that holds time t
AlignedWindow(i, t) == t \div WindowTicks(RuleOf(i))

\* the requests before request j that were admitted in j's aligned window
AdmittedBefore(j) ==
    {k \in Admitted(1, j - 1) : AlignedWindow(j, hist[k].t) = AlignedWindow(j, hist[j].t)}

\* C31: fixed window: a request is admitted exactly when fewer than quota
\* requests were admitted before it in its own aligned window, whatever was
\* admitted in the window before; so quota admissions just before a
\* boundary and quota just after it are all admitted.
C31_FixedWindowFreshStart ==
    \A j \in 1..Len(hist) :
        SameStream(1, j, "fixed_window")
        => /\ Decided(hist[j])
           /\ hist[j].d.allowed
                 <=> Cardinality(AdmittedBefore(j)) < RuleOf(j).requests_per_unit

\* quota admissions in the last tick of a window and quota in the first
\* tick of the next one: 2 * quota admissions in less than window_seconds
C31_Witness ==
    \E i \in 1..Len(hist) :
        LET q == RuleOf(i).requests_per_unit
        IN  /\ SameStream(i, Len(hist), "fixed_window")
            /\ Len(hist) - i + 1 = 2 * q
            /\ Cardinality(Admitted(i, Len(hist))) = 2 * q
            /\ Last.t - hist[i].t < WindowTicks(RuleOf(i))
            /\ AlignedWindow(i, Last.t) = AlignedWindow(i, hist[i].t) + 1
            /\ Cardinality(AdmittedBefore(Len(hist))) = q - 1

\* C32: sliding window counter, a request processed on its own: it is
\* admitted exactly when floor(current_count + previous_count * (1 - p)) is
\* below the quota, p being the elapsed fraction of the current aligned
\* window; an admission adds one to the current window's counter and
\* changes no other counter; a rejection changes no counter.
C32_CounterDecisionRule ==
    [][nreq' = nreq + 1 =>
        \A rule \in get_rule(rules, <<"test">>, <<"user_id">>) :
            rule.algorithm = "sliding_window_counter" =>
                LET window == WindowTicks(rule)
                    start == WindowStart(clock, get_window_seconds(rule))
                    current_key == WindowKey(get_key(Alice, rule), start)
                    previous_key == WindowKey(get_key(Alice, rule),
                                              start - get_window_seconds(rule))
                    live == Purge(store, clock)
                    current_count == GetOr(live, current_key, 0)
                    previous_count == GetOr(live, previous_key, 0)
                    elapsed == clock - start * TicksPerSec
                    \* floor(current + previous * (1 - elapsed / window))
                    estimate == (current_count * window
                                 + previous_count * (window - elapsed)) \div window
                    e == hist'[Len(hist')]
                IN  /\ Decided(e)
                    /\ e.d.allowed <=> estimate < rule.requests_per_unit
                    /\ \A k \in DOMAIN live \ {current_key} :
                          k \in DOMAIN store' /\ store'[k].val = live[k].val
                    /\ DOMAIN store' \subseteq DOMAIN live \cup {current_key}
                    /\ e.d.allowed => store'[current_key].val = current_count + 1
                    /\ ~e.d.allowed => GetOr(store', current_key, 0) = current_count
    ]_vars

\* a rejection that the previous window's weight decides: the current
\* window's counter is below the quota, the estimate is not
C32_Witness ==
    /\ Len(hist) = 3
    /\ SameStream(1, 3, "sliding_window_counter")
    /\ hist[1].d.allowed /\ hist[2].d.allowed /\ ~Last.d.allowed
    /\ AlignedWindow(1, hist[2].t) = AlignedWindow(1, hist[1].t) + 1
    /\ AlignedWindow(1, Last.t) = AlignedWindow(1, hist[2].t)
    /\ \A k \in DOMAIN store : store[k].val < RuleOf(1).requests_per_unit

----------------------------------------------------------------------------
(* SpecLog: one client under one sliding-window-log rule, requests         *)
(* processed one at a time with a healthy store, the whole sequence of     *)
(* decisions kept; the client sends as many requests as in SpecLeak.       *)

LogRules ==
    {TestRule(2, "second", "sliding_window_log", 0, 0),
     TestRule(1, "second", "sliding_window_log", 0, 0)}

InitLog ==
    /\ clock = 0
    /\ store = NoStore
    /\ rules \in {add_rule(DefaultRules, r) : r \in LogRules}
    /\ procs = <<>>
    /\ hist = <<>>
    /\ nreq = 0
    /\ nadd = 0
    /\ http = <<>>

NextLog ==
    \/ Tick(1, MaxTime)
    \/ LeakRequest(Alice, <<"test">>, <<"user_id">>)

SpecLog == InitLog /\ [][NextLog]_vars

\* the members of the client's log
LogMembers(s, rule) ==
    LET log_key == get_key(Alice, rule) \o <<"log">>
    IN  IF log_key \in DOMAIN s THEN s[log_key].zs ELSE {}

\* C33: sliding window log, requests one at a time: a rejected request adds
\* no member to the log; after a rejection the log holds exactly the
\* admitted requests that are still inside the window, one member for each;
\* and the log never holds more members than the quota.
C33_LogAfterRejection ==
    [][nreq' = nreq + 1 =>
        \A rule \in get_rule(rules, <<"test">>, <<"user_id">>) :
            rule.algorithm = "sliding_window_log" =>
                LET e == hist'[Len(hist')]
                    inside == {k \in Admitted(1, Len(hist)) :
                                  hist[k].t > clock - WindowTicks(rule)}
                IN  /\ Decided(e)
                    /\ Cardinality(LogMembers(store', rule)) <= rule.requests_per_unit
                    /\ ~e.d.allowed
                          => /\ LogMembers(store', rule) \subseteq LogMembers(store, rule)
                             /\ LogMembers(store', rule) = {hist[k].t : k \in inside}
                             /\ Cardinality(LogMembers(store', rule)) = Cardinality(inside)
    ]_vars

\* a rejection after admissions at distinct times, one of them already
\* outside the window: the log holds the quota of members, one for each
\* admitted request that is still inside the window
C33_Witness ==
    /\ Len(hist) = 4
    /\ SameStream(1, 4, "sliding_window_log")
    /\ Cardinality(Admitted(1, 4)) = 3
    /\ ~Last.d.allowed /\ clock = Last.t
    /\ \A i, j \in Admitted(1, 4) : i # j => hist[i].t # hist[j].t
    /\ hist[1].t <= Last.t - WindowTicks(RuleOf(1))
    /\ Cardinality(LogMembers(store, RuleOf(1))) = RuleOf(1).requests_per_unit

----------------------------------------------------------------------------
(* Claims on the life of the keys. *)

\* max(2 * window_seconds, 3600), in ticks
TtlBound(rule) == Max(2 * get_window_seconds(rule), TokenTTL) * TicksPerSec

\* C34: after every completed decision every key under the client's base
\* key has a TTL, of at most max(2 * window_seconds, 3600) seconds; so all
\* keys of a client that has stopped sending are gone at the latest that
\* long after its last request.
C34_KeysCarryTtl ==
    (Len(hist) > 0 /\ Decided(Last))
    => \A rule \in Last.rule :
          /\ \A k \in DOMAIN store :
                IsPrefix(get_key(Last.client, rule), k)
                => /\ store[k].exp # {}
                   /\ \A x \in store[k].exp : x - clock <= TtlBound(rule)
          /\ clock > Last.t + TtlBound(rule)
                => Fresh(store, get_key(Last.client, rule))

\* a decision reached with every store call answered: the log key it wrote
\* expires window_seconds later
C34_Witness ==
    /\ Len(hist) > 0
    /\ Decided(Last) /\ Last.d.allowed /\ ~Last.failed /\ Last.fresh
    /\ Last.d.algorithm = "sliding_window_log"
    /\ clock = Last.t
    /\ \A rule \in Last.rule :
          /\ DOMAIN store = {get_key(Alice, rule) \o <<"log">>}
          /\ \A k \in DOMAIN store : store[k].exp = {clock + WindowTicks(rule)}

----------------------------------------------------------------------------
(* SpecSnap: two gateways' requests of one client interleaved at their     *)
(* store round-trips while add_rule replaces the rule of their (domain,    *)
(* key_type).  The history logs the rule each request found at its start,  *)
(* every add_rule call and every decision.                                 *)

SnapRules ==
    {TestRule(1, "second", "token_bucket", 2, 0),
     TestRule(2, "minute", "sliding_window_counter", 0, 0)}

\* one request in flight across the replacement and one after it
MaxSnapReq == MaxReq - 1

InitSnap ==
    /\ clock = 0
    /\ store = NoStore
    /\ rules \in {add_rule(DefaultRules, r) : r \in SnapRules}
    /\ procs = [g \in Gateways |-> <<>>]
    /\ hist = <<>>
    /\ nreq = 0
    /\ nadd = 0
    /\ http = <<>>

\* RateLimiterService.add_rule, logged
SnapAddRule(rule) ==
    /\ nadd < MaxAdd
    /\ nadd' = nadd + 1
    /\ rules' = add_rule(rules, rule)
    /\ hist' = Append(hist, [op |-> "add", rule |-> rule])
    /\ UNCHANGED <<clock, store, procs, nreq, http>>

\* check_request up to its first await: the rule lookup, the limiter and
\* the strategy's time.time(); the rule found is logged
SnapBegin(g, client, domain, key_type) ==
    /\ nreq < MaxSnapReq
    /\ nreq' = nreq + 1
    /\ procs[g] = <<>>
    /\ \E rule \in get_rule(rules, domain, key_type) :
          /\ procs' = [procs EXCEPT ![g] = <<Frame(client, rule, clock)>>]
          /\ hist' = Append(hist, [op |-> "begin", g |-> g, rule |-> rule,
                                   domain |-> domain, key_type |-> key_type])
    /\ UNCHANGED <<clock, store, rules, nadd, http>>

\* the next store round-trip of the request gateway g is running; the
\* decision is logged when the request returns
SnapStep(g) ==
    /\ procs[g] # <<>>
    /\ \E r \in {Step(procs[g][1], store, clock)} :
          /\ store' = r.s
          /\ IF r.f.done
             THEN /\ procs' = [procs EXCEPT ![g] = <<>>]
                  /\ hist' = Append(hist, [op |-> "end", g |-> g] @@
                              HistEntry(r.f.now, r.f.client, r.f.rule.domain,
                                        r.f.rule.key, {r.f.rule}, Outcome(r.f, r.s), store))
             ELSE /\ procs' = [procs EXCEPT ![g] = <<r.f>>]
                  /\ hist' = hist
    /\ UNCHANGED <<clock, rules, nreq, nadd, http>>

\* the clock steps from the first window of the one-second rules to the
\* second
NextSnap ==
    \/ Tick(OneWindow, OneWindow)
    \/ \E r \in SnapRules : SnapAddRule(r)
    \/ \E g \in Gateways : SnapBegin(g, Alice, <<"test">>, <<"user_id">>)
    \/ \E g \in Gateways : SnapStep(g)

SpecSnap == InitSnap /\ [][NextSnap]_vars

\* the rule the latest request of gateway g found at its start, as a set
BeganWith(h, g) ==
    LET begins == {i \in 1..Len(h) : h[i].op = "begin" /\ h[i].g = g}
    IN  {h[i].rule : i \in {a \in begins : \A b \in begins : b <= a}}

\* C35: a decision uses one rule snapshot: every store round-trip of a
\* request, and the decision it returns, are those of the rule the request
\* read at its start, also when add_rule has replaced the rule of its
\* (domain, key_type) since; a request that starts after the replacement
\* reads the new rule.
C35_RuleSnapshot ==
    [][/\ \A g \in Gateways :
            (procs[g] # <<>> /\ procs'[g] # procs[g]) =>
                \A began \in BeganWith(hist, g) :
                    LET r == Step([procs[g][1] EXCEPT !.rule = began], store, clock)
                    IN  /\ store' = r.s
                        /\ ~r.f.done => procs'[g] = <<r.f>>
                        /\ r.f.done =>
                              /\ procs'[g] = <<>>
                              /\ hist'[Len(hist')].op = "end"
                              /\ hist'[Len(hist')].d = r.f.d
                              /\ hist'[Len(hist')].kind = r.f.kind
                              /\ hist'[Len(hist')].rule = {began}
       /\ nreq' = nreq + 1 =>
            \A new \in LastAdded(hist, <<"test">>, <<"user_id">>) :
                hist'[Len(hist')].op = "begin" /\ hist'[Len(hist')].rule = new
    ]_vars

\* a request that was in flight when the rule was replaced has returned a
\* decision of the rule it started with, after a request that started after
\* the replacement has returned one of the new rule
C35_Witness ==
    \E b \in 1..Len(hist) : \E a \in (b + 1)..Len(hist) : \E n \in (a + 1)..(Len(hist) - 1) :
        /\ hist[b].op = "begin" /\ hist[a].op = "add" /\ hist[n].op = "end"
        /\ Last.op = "end" /\ Last.g = hist[b].g /\ hist[n].g # hist[b].g
        /\ \A k \in (b + 1)..Len(hist) : hist[k].op = "begin" => hist[k].g # hist[b].g
        /\ hist[a].rule.algorithm # hist[b].rule.algorithm
        /\ hist[n].rule = {hist[a].rule} /\ hist[n].d.algorithm = hist[a].rule.algorithm
        /\ Last.rule = {hist[b].rule} /\ Last.d.algorithm = hist[b].rule.algorithm
        /\ Decided(Last) /\ Last.d.limit = CapacityOf(hist[b].rule)
        /\ get_rule(rules, <<"test">>, <<"user_id">>) # {hist[b].rule}

----------------------------------------------------------------------------
(* Claims on the retry hint of the rate-based strategies (SpecRetry). *)

\* C36: a token-bucket rejection carries retry_after = ceil(1 / refill_rate)
\* = ceil(window_seconds / quota), for every quota and unit, also when
\* window_seconds is a multiple of the quota.
C36_TokenRetryHint ==
    \A i \in 1..Len(hist) :
        (Decided(hist[i]) /\ ~hist[i].d.allowed /\ hist[i].d.algorithm = "token_bucket")
        => hist[i].d.retry_after
              = {CeilDiv(get_window_seconds(RuleOf(i)), RuleOf(i).requests_per_unit)}

\* a rejection whose hint is the ceiling: two tokens a second, retry after
\* one second
C36_Witness ==
    /\ Len(hist) > 0
    /\ Decided(Last) /\ ~Last.d.allowed /\ Last.d.algorithm = "token_bucket"
    /\ get_window_seconds(RuleOf(Len(hist))) % RuleOf(Len(hist)).requests_per_unit # 0
    /\ Last.d.retry_after
          = {CeilDiv(get_window_seconds(RuleOf(Len(hist))), RuleOf(Len(hist)).requests_per_unit)}

\* C37: a sliding-window-log rejection carries retry_after =
\* ceil(window_seconds / quota), also when window_seconds is a multiple of
\* the quota.
C37_LogRetryHint ==
    \A i \in 1..Len(hist) :
        (Decided(hist[i]) /\ ~hist[i].d.allowed /\ hist[i].d.algorithm = "sliding_window_log")
        => hist[i].d.retry_after
              = {CeilDiv(get_window_seconds(RuleOf(i)), RuleOf(i).requests_per_unit)}

\* a rejection whose hint is the ceiling: two requests a second, retry
\* after one second
C37_Witness ==
    /\ Len(hist) > 0
    /\ Decided(Last) /\ ~Last.d.allowed /\ Last.d.algorithm = "sliding_window_log"
    /\ get_window_seconds(RuleOf(Len(hist))) % RuleOf(Len(hist)).requests_per_unit # 0
    /\ Last.d.retry_after
          = {CeilDiv(get_window_seconds(RuleOf(Len(hist))), RuleOf(Len(hist)).requests_per_unit)}

----------------------------------------------------------------------------
(* SpecTake: token_bucket_check called on one key with one capacity and    *)
(* refill rate (those of a token-bucket rule of SpecStream), each call     *)
(* with the time its gateway read; the gateways' readings are in no order, *)
(* the store keeps its own time.                                           *)

InitTake ==
    /\ clock = 0
    /\ store = NoStore
    /\ rules \in {add_rule(DefaultRules, r) :
                    r \in {x \in StreamRules : x.algorithm = "token_bucket"}}
    /\ procs = <<>>
    /\ hist = <<>>
    /\ nreq = 0
    /\ nadd = 0
    /\ http = <<>>

\* RedisClient.token_bucket_check with the reading now of time.time()
TokenBucketTake(client, rule, now) ==
    /\ nreq < MaxReq
    /\ nreq' = nreq + 1
    /\ \E r \in {token_bucket_check(store, get_key(client, rule),
                                    OrElse(rule.bucket_size, rule.requests_per_unit),
                                    rule.requests_per_unit, get_window_seconds(rule),
                                    now, clock)} :
          /\ store' = r.s
          /\ hist' = Append(hist, [now |-> now, allowed |-> r.allowed,
                                   remaining |-> r.remaining])
    /\ UNCHANGED <<clock, rules, procs, nadd, http>>

NextTake ==
    \/ Tick(1, MaxTime)
    \/ \E rule \in get_rule(rules, <<"test">>, <<"user_id">>) : \E now \in 0..MaxTime :
          TokenBucketTake(Alice, rule, now)

SpecTake == InitTake /\ [][NextTake]_vars

\* the stored token count of the client, in token units, as a set
StoredTokens(rule) ==
    {store[k].val : k \in DOMAIN store \cap {get_key(Alice, rule) \o <<"tokens">>}}

\* C38: after any sequence of token_bucket_check calls on one key with one
\* capacity, whatever the now values of the calls (a call's now may be
\* smaller than the stored last_refill), the stored token count is at least
\* 0 and at most the capacity.
C38_TokensWithinCapacity ==
    \A rule \in get_rule(rules, <<"test">>, <<"user_id">>) :
        \A tokens \in StoredTokens(rule) :
            /\ tokens >= 0
            /\ tokens <= OrElse(rule.bucket_size, rule.requests_per_unit) * TokenUnit

\* a call whose now is smaller than the stored last_refill and which
\* leaves a token count within the bounds
C38_Witness ==
    /\ Len(hist) >= 2
    /\ Last.now < hist[Len(hist) - 1].now
    /\ \A rule \in get_rule(rules, <<"test">>, <<"user_id">>) :
          /\ StoredTokens(rule) # {}
          /\ \A tokens \in StoredTokens(rule) :
                /\ tokens >= 0
                /\ tokens < (OrElse(rule.bucket_size, rule.requests_per_unit) - 1) * TokenUnit

----------------------------------------------------------------------------
(* Claims on the life of the window counters (SpecStream). *)

\* the key of the aligned window of request i's rule that holds time t
WindowKeyAt(i, t) ==
    WindowKey(get_key(hist[i].client, RuleOf(i)),
              WindowStart(t, get_window_seconds(RuleOf(i))))

\* the requests admitted so far in aligned window n of request i's rule
AdmittedInWindow(i, n) ==
    {k \in Admitted(1, Len(hist)) : AlignedWindow(i, hist[k].t) = n}

\* C39: a fixed-window counter key does not expire before its aligned
\* window ends: whenever in the window the first increment was made, at
\* every later instant of the window the key is present and holds the
\* number of requests admitted in the window.
C39_FixedKeyOutlivesWindow ==
    \A i \in 1..Len(hist) :
        (/\ SameStream(1, Len(hist), "fixed_window")
         /\ hist[i].d.allowed
         /\ AlignedWindow(i, clock) = AlignedWindow(i, hist[i].t))
        => /\ WindowKeyAt(i, clock) \in DOMAIN store
           /\ store[WindowKeyAt(i, clock)].val
                 = Cardinality(AdmittedInWindow(i, AlignedWindow(i, clock)))

\* a counter created after the start of its window and incremented later,
\* present with both counts at the last instant of the window
C39_Witness ==
    /\ Len(hist) = 2
    /\ SameStream(1, 2, "fixed_window")
    /\ hist[1].d.allowed /\ hist[2].d.allowed
    /\ hist[1].t > WindowStart(hist[1].t, get_window_seconds(RuleOf(1))) * TicksPerSec
    /\ hist[2].t > hist[1].t /\ clock >= hist[2].t
    /\ AlignedWindow(1, clock) = AlignedWindow(1, hist[1].t)
    /\ AlignedWindow(1, clock + 1) # AlignedWindow(1, clock)
    /\ WindowKeyAt(1, clock) \in DOMAIN store
    /\ store[WindowKeyAt(1, clock)].val = 2

\* C40: sliding window counter: when a request is decided in the window
\* after one in which requests were admitted, the counter of that earlier
\* window is still in the store, with the number of requests admitted in it.
C40_PreviousCounterKept ==
    [][(nreq' = nreq + 1 /\ Len(hist) > 0 /\ SameStream(1, Len(hist), "sliding_window_counter"))
        => LET previous == AlignedWindow(1, clock) - 1
               previous_key == WindowKeyAt(1, clock - WindowTicks(RuleOf(1)))
           IN  AdmittedInWindow(1, previous) # {}
               => /\ previous_key \in DOMAIN store
                  /\ store[previous_key].val = Cardinality(AdmittedInWindow(1, previous))
                  /\ previous_key \in DOMAIN store'
                  /\ store'[previous_key].val = store[previous_key].val
    ]_vars

\* a request decided in the next window, more than window_seconds after
\* the only admission of the window before: the earlier counter is still
\* there
C40_Witness ==
    /\ Len(hist) = 2
    /\ SameStream(1, 2, "sliding_window_counter")
    /\ hist[1].d.allowed
    /\ hist[1].t = WindowStart(hist[1].t, get_window_seconds(RuleOf(1))) * TicksPerSec
    /\ Last.t > hist[1].t + WindowTicks(RuleOf(1))
    /\ AlignedWindow(1, Last.t) = AlignedWindow(1, hist[1].t) + 1
    /\ clock = Last.t
    /\ WindowKeyAt(1, hist[1].t) \in DOMAIN store
    /\ store[WindowKeyAt(1, hist[1].t)].val = 1
=============================================================================
